---- MODULE Spec2Model ----
(***************************************************************************)
(* Model of the media ingestion pipeline of porridge-backend               *)
(* (src/src/files/files.module.ts, class FilesService, and its controller).*)
(*                                                                         *)
(* Specifications:                                                         *)
(*   Spec         uploads, URL uploads and ingest jobs against the         *)
(*                repository, the blob store and the scratch directory     *)
(*   SpecStatus   ingest jobs polled through getIngestStatus               *)
(*   SpecLimiter  concurrent calls through withHostLimit                   *)
(*   SpecLimiterFair  the same, with every started request settling        *)
(*   SpecFetch    one fetchStreamWithBackoff call against a clock          *)
(*   SpecResolve  resolveMediaUrl applied to a URL and a remote behaviour  *)
(*   SpecJob      ingest jobs with progress, notifications and the         *)
(*                background pipeline of the saved asset                   *)
(*   SpecUrl      uploadFromUrl next to direct uploads                     *)
(*   SpecTask     the background task of an ingest job under fair          *)
(*                scheduling, with response streams that can fail          *)
(*   SpecWindow   bestWindowAvgHamming applied to two frame-hash sequences *)
(*   SpecMatch    findParentMatch applied to a new asset and the stored    *)
(*                assets                                                   *)
(*   SpecOwners   findParentMatch in a repository shared by several users  *)
(*   SpecHamming  hammingHex applied to two hashes of the same width       *)
(*   SpecGeneric  resolveMediaUrl on URLs that reach resolveGenericUrl     *)
(*   SpecOutbound downloads through withHostLimit next to the requests the  *)
(*                resolvers send on their own                              *)
(*   SpecReddit   resolveMediaUrl on a discussion-site post whose requests  *)
(*                are all answered                                         *)
(*   SpecRedgifs  one resolveRedgifsUrl call with its timers                *)
(*   SpecPipeline one uploadFile call and the derivative pipeline of the   *)
(*                asset it saves, with every awaited call able to fail     *)
(***************************************************************************)
EXTENDS Integers, Sequences, FiniteSets, TLC

VARIABLES ops, fileRepository, blobs, scratch, poll,
          hostLimits, calls,
          fetch, now,
          res, win, match,
          ham, gen, pipe, rg,
          rd, direct

mainVars == <<ops, fileRepository, blobs, scratch>>
limVars == <<hostLimits, calls>>
fetchVars == <<fetch, now>>
oldVars == <<ops, fileRepository, blobs, scratch, poll, hostLimits, calls, fetch, now,
             res, win, match>>
lastVars == <<rd, direct>>
laterVars == <<ham, gen, pipe, rg, lastVars>>
matchVars == <<win, match, laterVars>>
others == <<poll, hostLimits, calls, fetch, now, res, win, match, laterVars>>
vars == <<ops, fileRepository, blobs, scratch, poll, hostLimits, calls, fetch, now, res,
          win, match, ham, gen, pipe, rg, rd, direct>>

(***************************************************************************)
(* Bounds of the model.                                                    *)
(***************************************************************************)
MaxOps == 2
MaxByte == 1
MaxHops == 1
MaxJobs == 1
MaxCalls == 5
MaxRetriesArg == 3
MaxRetryAfter == 2
MaxTime == 8000
TickMs == 500
MaxNeedle == 2
MaxHaystack == 3
MaxWidth == 2
RgTickMs == 100
MaxDepth == 3
MaxDirect == 1
MaxCandidates == 2

Ops == 1..MaxOps
Owners == {"u1", "u2"}
\* File contents: the empty body and the one-byte bodies.
Bodies == {<<>>} \cup {<<b>> : b \in 1..MaxByte}

(***************************************************************************)
(* Site Resolver: resolveMediaUrl and the strategies it dispatches to.     *)
(* A URL is abstracted to the substring tests and suffix tests the code    *)
(* performs on it: which site name it includes, its extension, and whether *)
(* its last path segment yields an id.                                     *)
(***************************************************************************)
Sites == {"redgifs.com", "imgur.com", "reddit.com", "example.com"}
Exts == {"", ".gif", ".mp4"}
Urls == [site : Sites, ext : Exts, id : {"", "abc"}]
\* URLs a discussion-site post can point at.
Discoverable == {[site |-> s, ext |-> "", id |-> "abc"] : s \in Sites}
ImgurFormats == <<".gif", ".mp4", ".jpg", ".png">>

RECURSIVE SeqsUpTo(_, _)
SeqsUpTo(S, n) ==
  IF n = 0 THEN {<<>>}
  ELSE LET shorter == SeqsUpTo(S, n - 1)
       IN shorter \cup {Append(q, x) : q \in shorter, x \in S}

\* Behaviour of the remote hosts during one resolution:
\*   head200  the imgur direct-URL formats whose HEAD probe answers 200
\*   redgifs  whether some redgifs strategy yields a URL before the deadline
\*   generic  whether the fetched page names a reachable direct video URL
\*   chain    the media URLs the successive discussion-site posts point at
Nets == [head200 : SUBSET {ImgurFormats[i] : i \in 1..4},
         redgifs : BOOLEAN, generic : BOOLEAN,
         chain : SeqsUpTo(Discoverable, MaxHops)]

Returned(u) == [raised |-> FALSE, url |-> u, error |-> ""]
Raised(u, msg) == [raised |-> TRUE, url |-> u, error |-> msg]

ImgurIdError == "Failed to resolve Imgur URL: Could not extract Imgur ID"
ImgurFormatError == "Failed to resolve Imgur URL: Could not find valid Imgur media format"

\* Faulty variant: the outer catch returns the original URL instead of rethrowing.
resolveImgurUrlFallback(url, net) ==
  LET ok == {i \in 1..4 : ImgurFormats[i] \in net.head200}
  IN IF url.id # "" /\ ok # {}
     THEN Returned([site |-> "imgur.com",
                    ext |-> ImgurFormats[CHOOSE i \in ok : \A k \in ok : i <= k],
                    id |-> url.id])
     ELSE Returned(url)

resolveImgurUrl(url, net) ==
  LET ok == {i \in 1..4 : ImgurFormats[i] \in net.head200}
  IN IF url.id = "" THEN Raised(url, ImgurIdError)
     ELSE IF ok # {}
          THEN Returned([site |-> "imgur.com",
                         ext |-> ImgurFormats[CHOOSE i \in ok : \A k \in ok : i <= k],
                         id |-> url.id])
          ELSE Raised(url, ImgurFormatError)

\* The whole body runs inside try/catch: any failure returns rawUrl.
resolveRedgifsUrl(rawUrl, net) ==
  IF rawUrl.id # "" /\ net.redgifs
  THEN Returned([site |-> "redgifs.com", ext |-> ".mp4", id |-> rawUrl.id])
  ELSE Returned(rawUrl)

\* /\.(mp4|webm|mov|mkv|m3u8|mpd)(\?|#|$)/i
DirectExts == {".mp4", ".webm", ".mov", ".mkv", ".m3u8", ".mpd"}
IsDirectVideo(u) == u.ext \in DirectExts

\* Faulty variant: the page is fetched before the URL is looked at.
GenericFetchPageFirst(rawUrl, net) ==
  IF net.generic
  THEN [out |-> Returned([site |-> rawUrl.site, ext |-> ".mp4", id |-> rawUrl.id]),
        pageRequested |-> TRUE]
  ELSE [out |-> Returned(rawUrl), pageRequested |-> TRUE]

\* resolveGenericUrl with the requests it issues: the GET of the page comes
\* first and every HEAD probe follows it.
GenericFetch(rawUrl, net) ==
  IF IsDirectVideo(rawUrl) THEN [out |-> Returned(rawUrl), pageRequested |-> FALSE]
  ELSE IF net.generic
       THEN [out |-> Returned([site |-> rawUrl.site, ext |-> ".mp4", id |-> rawUrl.id]),
             pageRequested |-> TRUE]
       ELSE [out |-> Returned(rawUrl), pageRequested |-> TRUE]

resolveGenericUrl(rawUrl, net) == GenericFetch(rawUrl, net).out

RECURSIVE resolveMediaUrl(_, _)

\* The post's media URL is resolved again; a raise of that inner resolution
\* is caught and the discovered URL returned as it is.
resolveRedditUrl(rawUrl, net) ==
  IF net.chain = <<>> THEN Returned(rawUrl)
  ELSE LET mediaUrl == Head(net.chain)
           inner == resolveMediaUrl(mediaUrl, [net EXCEPT !.chain = Tail(@)])
       IN IF inner.raised THEN Returned(mediaUrl) ELSE inner

\* The strategy resolveMediaUrl hands the URL to.
Strategy(url) ==
  IF url.site = "redgifs.com" THEN "redgifs"
  ELSE IF url.site = "imgur.com" /\ url.ext \notin {".gif", ".mp4"} THEN "imgur"
  ELSE IF url.site = "reddit.com" THEN "reddit"
  ELSE "generic"

resolveMediaUrl(url, net) ==
  CASE Strategy(url) = "redgifs" -> resolveRedgifsUrl(url, net)
    [] Strategy(url) = "imgur" -> resolveImgurUrl(url, net)
    [] Strategy(url) = "reddit" -> resolveRedditUrl(url, net)
    [] OTHER -> LET g == resolveGenericUrl(url, net)
                IN IF g.raised THEN Returned(url) ELSE g

\* Every outcome resolveMediaUrl can have.
ResolveResults == {resolveMediaUrl(u, n) : u \in Urls, n \in Nets}

NoUrl == [site |-> "", ext |-> "", id |-> ""]
NoNet == [head200 |-> {}, redgifs |-> FALSE, generic |-> FALSE, chain |-> <<>>]
NoRes == [called |-> FALSE, url |-> NoUrl, net |-> NoNet, out |-> Returned(NoUrl)]

\* One call of resolveMediaUrl.
Resolve ==
  /\ ~res.called
  /\ \E u \in Urls, n \in Nets :
       res' = [called |-> TRUE, url |-> u, net |-> n, out |-> resolveMediaUrl(u, n)]
  /\ UNCHANGED <<mainVars, poll, limVars, fetchVars, matchVars>>

\* URLs with the extensions the generic resolver tells apart.
GenericExts == {"", ".gif", ".jpg", ".mp4", ".webm", ".mkv"}
GenericUrls == [site : Sites, ext : GenericExts, id : {"", "abc"}]

NoGen == [called |-> FALSE, url |-> NoUrl, net |-> NoNet, out |-> Returned(NoUrl),
          pageRequested |-> FALSE]

\* One call of resolveMediaUrl that reaches the generic resolver.
ResolveGeneric ==
  /\ ~gen.called
  /\ \E u \in GenericUrls, n \in Nets :
       /\ Strategy(u) = "generic"
       /\ gen' = [called |-> TRUE, url |-> u, net |-> n, out |-> resolveMediaUrl(u, n),
                  pageRequested |-> GenericFetch(u, n).pageRequested]
  /\ UNCHANGED <<oldVars, ham, pipe, rg, lastVars>>

(***************************************************************************)
(* Content identity.  Digests are symbolic and collision free.             *)
(***************************************************************************)
Sha256(x) == <<"sha256", x>>
Md5(x) == <<"md5", x>>

computeQuickCombinedHash(body) ==
  LET sha == Sha256(body)
      m == Md5(body)
  IN [hash |-> Sha256(<<sha, m>>), sha256 |-> sha, md5 |-> m]

(***************************************************************************)
(* Operations.  Each element of Ops is one request: a direct upload        *)
(* (kind "upload"), uploadFromUrl (kind "url") or an ingest job (kind      *)
(* "ingest"); its pc is the await the operation is suspended at.  The job  *)
(* fields state, error and fileId are those of the ingestJobs record; hist *)
(* is the sequence of values assigned to record.state.  notes are the      *)
(* calls of notificationsService.create made on behalf of the operation,   *)
(* each sent, then stored or failed; bg is the position of the background  *)
(* pipeline uploadFile starts once the record is saved.                    *)
(***************************************************************************)
NoId == <<0, "none">>

EmptyError == "Downloaded file is empty (0 bytes)"
DuplicateError == "Duplicate file detected. This file was already uploaded."
S3Error == "S3 upload failed"
DbError == "DB save failed"
FetchError == "HTTP 429 Too Many Requests"
WriteError == "write failed"

FailedNote == "Download failed"
EmptyNote == "Download failed: file is empty"
\* Values of the Content-Length header of the download: 0 when absent.
ContentLengths == 0..2

\* notificationsService.create(userId, message, ...) is called.
Notify(rec, userId, message) ==
  [rec EXCEPT !.notes = Append(@, [userId |-> userId, message |-> message,
                                   status |-> "sent"])]

IdleOp == [kind |-> "none", pc |-> "idle", ownerId |-> "none", phase |-> "main",
           body |-> <<>>, conflictId |-> NoId, result |-> "none",
           state |-> "none", hist |-> <<>>, error |-> "none", fileId |-> NoId,
           totalBytes |-> 0, downloadedBytes |-> 0, uploadedBytes |-> 0,
           notes |-> <<>>, bg |-> "none", bgFailures |-> {}]

\* Repository lookup by (hash, ownerId).
\* Faulty variant: the lookup ignores the owner.
FindByHashAnyOwner(repo, hash, ownerId) == {f \in repo : f.hash = hash}

FindByHash(repo, hash, ownerId) ==
  {f \in repo : f.hash = hash /\ f.ownerId = ownerId}

SetState(rec, s) == [rec EXCEPT !.state = s, !.hist = Append(@, s)]

\* Faulty variant: the catch block notifies nobody.
JobCatchSilent(rec, msg) == [SetState(rec, "error") EXCEPT !.error = msg, !.pc = "done"]

\* The catch block of the job's background task; the await of the
\* notification is all that remains of the task.
JobCatch(rec, msg) ==
  Notify([SetState(rec, "error") EXCEPT !.error = msg, !.pc = "done"],
         rec.ownerId, FailedNote)

\* Where an exception thrown by uploadFile lands in its caller.
UploadThrows(rec, msg, existingId) ==
  CASE rec.kind = "ingest" -> JobCatch(rec, msg)
    [] rec.kind = "upload" ->
         [rec EXCEPT !.pc = "done", !.conflictId = existingId,
                     !.result = IF existingId # NoId THEN "conflict" ELSE "failed"]
    [] rec.kind = "url" /\ rec.phase = "main" ->
         [rec EXCEPT !.pc = "fbpage", !.conflictId = existingId]
    [] OTHER -> [rec EXCEPT !.pc = "done", !.result = "failed"]

\* Faulty variant: the job is marked done without the id of the asset.
UploadReturnsNoId(rec, id) ==
  IF rec.kind = "ingest"
  THEN [SetState(rec, "done") EXCEPT !.pc = "done", !.bg = "process"]
  ELSE [rec EXCEPT !.pc = "done", !.result = "ok", !.fileId = id, !.bg = "process"]

\* Where the value returned by uploadFile lands in its caller; the
\* background pipeline of the saved asset has started.
UploadReturns(rec, id) ==
  IF rec.kind = "ingest"
  THEN [SetState(rec, "done") EXCEPT !.fileId = id, !.pc = "done", !.bg = "process"]
  ELSE [rec EXCEPT !.pc = "done", !.result = "ok", !.fileId = id, !.bg = "process"]

\* POST /files/upload: the controller calls uploadFile with the stored file.
StartUpload(o) ==
  /\ ops[o].pc = "idle"
  /\ \E owner \in Owners, body \in Bodies :
       ops' = [ops EXCEPT ![o] = [IdleOp EXCEPT !.kind = "upload", !.pc = "find",
                                                !.ownerId = owner, !.body = body]]
  /\ scratch' = scratch \cup {<<o, "main">>}
  /\ UNCHANGED <<fileRepository, blobs>>
  /\ UNCHANGED others

\* startIngestJob: the record is created in state pending and the background
\* task runs to its first await, which sets state resolving.
StartIngestJob(o) ==
  /\ ops[o].pc = "idle"
  /\ \E owner \in Owners :
       ops' = [ops EXCEPT ![o] =
                 SetState(SetState([IdleOp EXCEPT !.kind = "ingest", !.pc = "resolve",
                                                  !.ownerId = owner],
                                   "pending"), "resolving")]
  /\ UNCHANGED <<fileRepository, blobs, scratch>>
  /\ UNCHANGED others

\* resolveMediaUrl settles: a raise goes to the catch block.
JobResolved(o) ==
  /\ ops[o].kind = "ingest" /\ ops[o].pc = "resolve"
  /\ \E r \in ResolveResults :
       ops' = [ops EXCEPT ![o] =
                 IF r.raised THEN JobCatch(@, r.error)
                 ELSE [SetState(@, "downloading") EXCEPT !.pc = "fetch"]]
  /\ UNCHANGED <<fileRepository, blobs, scratch>>
  /\ UNCHANGED others

\* fetchStreamWithBackoff settles; totalBytes is taken from Content-Length.
JobFetched(o) ==
  /\ ops[o].kind = "ingest" /\ ops[o].pc = "fetch"
  /\ \/ \E contentLength \in ContentLengths :
          ops' = [ops EXCEPT ![o] = [@ EXCEPT !.pc = "write",
                                              !.totalBytes = contentLength]]
     \/ ops' = [ops EXCEPT ![o] = JobCatch(@, FetchError)]
  /\ UNCHANGED <<fileRepository, blobs, scratch>>
  /\ UNCHANGED others

\* A chunk of the response body arrives and is piped to the scratch file.
JobData(o) ==
  /\ ops[o].kind = "ingest" /\ ops[o].pc = "write"
  /\ \E b \in 1..MaxByte :
       /\ Append(ops[o].body, b) \in Bodies
       /\ ops' = [ops EXCEPT ![o].body = Append(@, b),
                             ![o].downloadedBytes = @ + 1]
  /\ UNCHANGED <<fileRepository, blobs, scratch>>
  /\ UNCHANGED others

\* The response stream fails after the headers: nothing listens for its error
\* and pipe() does not end the writer, so neither finish nor error of the
\* writer fires and the awaited promise never settles.
JobStreamError(o) ==
  /\ ops[o].kind = "ingest" /\ ops[o].pc = "write"
  /\ ops' = [ops EXCEPT ![o].pc = "stalled"]
  /\ UNCHANGED <<fileRepository, blobs, scratch>>
  /\ UNCHANGED others

\* Faulty variant: totalBytes is always replaced by the size of the file.
TotalBytesFromFile(rec) == Len(rec.body)

\* totalBytes once the file is complete: kept when Content-Length gave one.
TotalBytesAfterWrite(rec) ==
  IF rec.totalBytes = 0 THEN Len(rec.body) ELSE rec.totalBytes

\* Faulty variant: the empty-file branch does not return.
JobWrittenNoReturn(o) ==
  /\ ops[o].kind = "ingest" /\ ops[o].pc = "write"
  /\ scratch' = scratch \cup {<<o, "main">>}
  /\ ops' = [ops EXCEPT ![o] =
               IF Len(@.body) = 0
               THEN [SetState(Notify([SetState(@, "error") EXCEPT !.error = EmptyError],
                                     @.ownerId, EmptyNote),
                              "uploading")
                       EXCEPT !.pc = "s3job"]
               ELSE [SetState(@, "uploading") EXCEPT
                       !.totalBytes = TotalBytesAfterWrite(ops[o]), !.pc = "s3job"]]
  /\ UNCHANGED <<fileRepository, blobs>>
  /\ UNCHANGED others

\* The write stream finishes (or fails); a zero-byte file ends the job.
JobWritten(o) ==
  /\ ops[o].kind = "ingest" /\ ops[o].pc = "write"
  /\ \/ /\ ops' = [ops EXCEPT ![o] = JobCatch(@, WriteError)]
        /\ UNCHANGED scratch
     \/ /\ scratch' = scratch \cup {<<o, "main">>}
        /\ ops' = [ops EXCEPT ![o] =
                     IF Len(@.body) = 0
                     THEN Notify([SetState(@, "error") EXCEPT !.error = EmptyError,
                                                              !.pc = "done"],
                                 @.ownerId, EmptyNote)
                     ELSE [SetState(@, "uploading") EXCEPT
                             !.totalBytes = TotalBytesAfterWrite(ops[o]),
                             !.pc = "s3job"]]
  /\ UNCHANGED <<fileRepository, blobs>>
  /\ UNCHANGED others

\* The blob-store upload reports progress: the bytes uploaded so far.
JobProgress(o) ==
  /\ ops[o].kind = "ingest" /\ ops[o].pc = "s3job"
  /\ \E bytes \in (ops[o].uploadedBytes + 1)..Len(ops[o].body) :
       ops' = [ops EXCEPT ![o].uploadedBytes = bytes]
  /\ UNCHANGED <<fileRepository, blobs, scratch>>
  /\ UNCHANGED others

\* A notification call settles: the notification is stored, or the sink
\* fails and the caller swallows the failure.
NotifySettles(o) ==
  /\ ops[o].bg # "notify"
  /\ \E i \in 1..Len(ops[o].notes), outcome \in {"stored", "failed"} :
       /\ ops[o].notes[i].status = "sent"
       /\ ops' = [ops EXCEPT ![o].notes[i].status = outcome]
  /\ UNCHANGED <<fileRepository, blobs, scratch>>
  /\ UNCHANGED others

\* Faulty variant: the job never enters saving.
JobS3UploadedNoSaving(o) ==
  /\ ops[o].kind = "ingest" /\ ops[o].pc = "s3job"
  /\ \/ /\ blobs' = blobs \cup {[key |-> <<o, "job">>, op |-> o, body |-> ops[o].body]}
        /\ ops' = [ops EXCEPT ![o].pc = "find"]
     \/ /\ ops' = [ops EXCEPT ![o] = JobCatch(@, S3Error)]
        /\ UNCHANGED blobs
  /\ UNCHANGED <<fileRepository, scratch>>
  /\ UNCHANGED others

\* The job's own blob-store upload settles; on success the job enters saving
\* and calls uploadFile.
JobS3Uploaded(o) ==
  /\ ops[o].kind = "ingest" /\ ops[o].pc = "s3job"
  /\ \/ /\ blobs' = blobs \cup {[key |-> <<o, "job">>, op |-> o, body |-> ops[o].body]}
        /\ ops' = [ops EXCEPT ![o] = [SetState(@, "saving") EXCEPT !.pc = "find"]]
     \/ /\ ops' = [ops EXCEPT ![o] = JobCatch(@, S3Error)]
        /\ UNCHANGED blobs
  /\ UNCHANGED <<fileRepository, scratch>>
  /\ UNCHANGED others

\* uploadFile: quick hash, then the duplicate lookup and what follows it.
UploadFindOne(o) ==
  /\ ops[o].pc = "find"
  /\ LET quick == computeQuickCombinedHash(ops[o].body)
         found == FindByHash(fileRepository, quick.hash, ops[o].ownerId)
     IN IF found # {}
        THEN /\ \E existingFile \in found :
                  ops' = [ops EXCEPT ![o] = UploadThrows(@, DuplicateError, existingFile.id)]
             /\ scratch' = scratch \ {<<o, ops[o].phase>>}
        ELSE /\ ops' = [ops EXCEPT ![o].pc = "s3"]
             /\ UNCHANGED scratch
  /\ UNCHANGED <<fileRepository, blobs>>
  /\ UNCHANGED others

\* uploadFile: the blob-store upload of the primary object settles.
UploadS3(o) ==
  /\ ops[o].pc = "s3"
  /\ \/ /\ blobs' = blobs \cup {[key |-> <<o, ops[o].phase>>, op |-> o,
                                 body |-> ops[o].body]}
        /\ ops' = [ops EXCEPT ![o].pc = "save"]
        /\ UNCHANGED scratch
     \/ /\ ops' = [ops EXCEPT ![o] = UploadThrows(@, S3Error, NoId)]
        /\ scratch' = scratch \ {<<o, ops[o].phase>>}
        /\ UNCHANGED blobs
  /\ UNCHANGED fileRepository
  /\ UNCHANGED others

\* uploadFile: the record save settles.
UploadSave(o) ==
  /\ ops[o].pc = "save"
  /\ \/ /\ fileRepository' = fileRepository \cup
             {[id |-> <<o, ops[o].phase>>, ownerId |-> ops[o].ownerId,
               hash |-> computeQuickCombinedHash(ops[o].body).hash,
               filename |-> <<o, ops[o].phase>>]}
        /\ ops' = [ops EXCEPT ![o] = UploadReturns(@, <<o, ops[o].phase>>)]
     \/ /\ ops' = [ops EXCEPT ![o] = UploadThrows(@, DbError, NoId)]
        /\ UNCHANGED fileRepository
  /\ UNCHANGED <<blobs, scratch>>
  /\ UNCHANGED others

(***************************************************************************)
(* Background pipeline of uploadFile: full processing, transcode,          *)
(* fingerprints, similarity matching.  Its repository updates write        *)
(* derivative fields only (thumbnail, size, transcode status, fingerprints;*)
(* the hash it writes is the combined hash the record already has), so the *)
(* records of the model, which carry none of them, are left as they are.   *)
(* bgFailures collects the steps that failed.                              *)
(***************************************************************************)
AudioNote == "We found a version of your upload that contains audio."
LongerNote == "We found a longer version of your upload."
MatchNote(reason) == IF reason = "audio" THEN AudioNote ELSE LongerNote

\* Faulty variant: the catch block tells the user.
BgCatchNotifies(rec, step) ==
  Notify([rec EXCEPT !.bg = "failed", !.bgFailures = @ \cup {step}],
         rec.ownerId, FailedNote)

\* The catch block of the pipeline: the failure is logged.
BgCatch(rec, step) == [rec EXCEPT !.bg = "failed", !.bgFailures = @ \cup {step}]

\* processFile, the thumbnail upload and the record update settle.
BgProcess(o) ==
  /\ ops[o].bg = "process"
  /\ \/ /\ \E isWebm \in BOOLEAN :
             ops' = [ops EXCEPT ![o].bg = IF isWebm THEN "transcode" ELSE "fingerprint"]
        /\ UNCHANGED scratch
     \/ /\ ops' = [ops EXCEPT ![o] = BgCatch(@, "process")]
        /\ scratch' = scratch \ {<<o, ops[o].phase>>}
  /\ UNCHANGED <<fileRepository, blobs>>
  /\ UNCHANGED others

\* The transcode settles: a failure is logged and recorded as the transcode
\* status, and the pipeline goes on unless that update fails too.
BgTranscode(o) ==
  /\ ops[o].bg = "transcode"
  /\ \/ /\ ops' = [ops EXCEPT ![o].bg = "fingerprint"]
        /\ UNCHANGED scratch
     \/ /\ ops' = [ops EXCEPT ![o].bg = "fingerprint",
                               ![o].bgFailures = @ \cup {"transcode"}]
        /\ UNCHANGED scratch
     \/ /\ ops' = [ops EXCEPT ![o] = BgCatch(@, "transcode")]
        /\ scratch' = scratch \ {<<o, ops[o].phase>>}
  /\ UNCHANGED <<fileRepository, blobs>>
  /\ UNCHANGED others

\* computeAndStoreFingerprints settles (its own failure is swallowed), then
\* the record update and the re-read.
BgFingerprint(o) ==
  /\ ops[o].bg = "fingerprint"
  /\ \/ /\ \E extracted \in BOOLEAN :
             ops' = [ops EXCEPT ![o].bg = "match",
                                ![o].bgFailures = IF extracted THEN @
                                                  ELSE @ \cup {"fingerprint"}]
        /\ UNCHANGED scratch
     \/ /\ ops' = [ops EXCEPT ![o] = BgCatch(@, "fingerprint")]
        /\ scratch' = scratch \ {<<o, ops[o].phase>>}
  /\ UNCHANGED <<fileRepository, blobs>>
  /\ UNCHANGED others

\* findParentMatch settles: a match is notified to the owner.
BgMatch(o) ==
  /\ ops[o].bg = "match"
  /\ \/ /\ ops' = [ops EXCEPT ![o].bg = "ended"]
        /\ scratch' = scratch \ {<<o, ops[o].phase>>}
     \/ /\ \E reason \in {"audio", "longer"} :
             ops' = [ops EXCEPT ![o] =
                       Notify([@ EXCEPT !.bg = "notify"], @.ownerId, MatchNote(reason))]
        /\ UNCHANGED scratch
     \/ /\ ops' = [ops EXCEPT ![o] = BgCatch(@, "match")]
        /\ scratch' = scratch \ {<<o, ops[o].phase>>}
  /\ UNCHANGED <<fileRepository, blobs>>
  /\ UNCHANGED others

\* The match notification settles and the pipeline ends.
BgNotified(o) ==
  /\ ops[o].bg = "notify"
  /\ \/ ops' = [ops EXCEPT ![o].bg = "ended",
                            ![o].notes[Len(ops[o].notes)].status = "stored"]
     \/ ops' = [ops EXCEPT ![o] = [BgCatch(@, "notify") EXCEPT
                                     !.notes[Len(ops[o].notes)].status = "failed"]]
  /\ scratch' = scratch \ {<<o, ops[o].phase>>}
  /\ UNCHANGED <<fileRepository, blobs>>
  /\ UNCHANGED others

\* uploadFromUrl runs to its first await inside resolveMediaUrl.
StartUploadFromUrl(o) ==
  /\ ops[o].pc = "idle"
  /\ \E owner \in Owners :
       ops' = [ops EXCEPT ![o] = [IdleOp EXCEPT !.kind = "url", !.pc = "resolve",
                                                !.ownerId = owner]]
  /\ UNCHANGED <<fileRepository, blobs, scratch>>
  /\ UNCHANGED others

\* resolveMediaUrl settles: a raise goes to the preview fallback.
UrlResolved(o) ==
  /\ ops[o].kind = "url" /\ ops[o].pc = "resolve"
  /\ \E r \in ResolveResults :
       ops' = [ops EXCEPT ![o].pc = IF r.raised THEN "fbpage" ELSE "fetch"]
  /\ UNCHANGED <<fileRepository, blobs, scratch>>
  /\ UNCHANGED others

\* fetchStreamWithBackoff settles.
UrlFetched(o) ==
  /\ ops[o].kind = "url" /\ ops[o].pc = "fetch"
  /\ \E ok \in BOOLEAN : ops' = [ops EXCEPT ![o].pc = IF ok THEN "write" ELSE "fbpage"]
  /\ UNCHANGED <<fileRepository, blobs, scratch>>
  /\ UNCHANGED others

\* The write stream finishes (or fails); the file goes to uploadFile whatever
\* its size.
UrlWritten(o) ==
  /\ ops[o].kind = "url" /\ ops[o].pc = "write"
  /\ \/ /\ ops' = [ops EXCEPT ![o].pc = "fbpage"]
        /\ UNCHANGED scratch
     \/ \E body \in Bodies :
          /\ scratch' = scratch \cup {<<o, "main">>}
          /\ ops' = [ops EXCEPT ![o].body = body, ![o].pc = "find"]
  /\ UNCHANGED <<fileRepository, blobs>>
  /\ UNCHANGED others

\* Preview fallback: the page is fetched, searched for a preview image, and
\* the image fetched; any failure ends uploadFromUrl with the combined error.
UrlFallbackFetched(o) ==
  /\ ops[o].kind = "url" /\ ops[o].pc = "fbpage"
  /\ \E ok \in BOOLEAN :
       ops' = [ops EXCEPT ![o] =
                 IF ok THEN [@ EXCEPT !.pc = "fbwrite", !.phase = "preview"]
                 ELSE [@ EXCEPT !.pc = "done", !.result = "failed"]]
  /\ UNCHANGED <<fileRepository, blobs, scratch>>
  /\ UNCHANGED others

\* Preview fallback: the image is written; an empty image is an error.
UrlFallbackWritten(o) ==
  /\ ops[o].kind = "url" /\ ops[o].pc = "fbwrite"
  /\ \/ /\ ops' = [ops EXCEPT ![o].pc = "done", ![o].result = "failed"]
        /\ UNCHANGED scratch
     \/ \E body \in Bodies :
          /\ scratch' = scratch \cup {<<o, "preview">>}
          /\ ops' = [ops EXCEPT ![o] =
                       IF Len(body) = 0
                       THEN [@ EXCEPT !.pc = "done", !.result = "failed"]
                       ELSE [@ EXCEPT !.body = body, !.pc = "find"]]
  /\ UNCHANGED <<fileRepository, blobs>>
  /\ UNCHANGED others

(***************************************************************************)
(* Ingest status poll.                                                     *)
(***************************************************************************)
NotFound == [found |-> FALSE, id |-> 0, state |-> "none", totalBytes |-> 0,
             downloadedBytes |-> 0, uploadedBytes |-> 0, fileId |-> NoId,
             error |-> "Job not found"]

IsJob(jobId) == jobId \in Ops /\ ops[jobId].kind = "ingest"

Snapshot(jobId) ==
  [found |-> TRUE, id |-> jobId, state |-> ops[jobId].state,
   totalBytes |-> ops[jobId].totalBytes, downloadedBytes |-> ops[jobId].downloadedBytes,
   uploadedBytes |-> ops[jobId].uploadedBytes,
   fileId |-> ops[jobId].fileId, error |-> ops[jobId].error]

\* Faulty variant: the ownership test is missing.
getIngestStatusNoOwnerCheck(jobId, ownerId) ==
  IF ~IsJob(jobId) THEN NotFound ELSE Snapshot(jobId)

getIngestStatus(jobId, ownerId) ==
  IF ~IsJob(jobId) \/ ops[jobId].ownerId # ownerId THEN NotFound ELSE Snapshot(jobId)

JobIds == 1..(MaxOps + 1)
NoPoll == [jobId |-> 0, caller |-> "none", out |-> NotFound]

\* GET /files/ingest/:jobId
GetIngest ==
  /\ \E jobId \in JobIds, caller \in Owners :
       poll' = [jobId |-> jobId, caller |-> caller, out |-> getIngestStatus(jobId, caller)]
  /\ UNCHANGED <<mainVars, limVars, fetchVars, res, matchVars>>

(***************************************************************************)
(* Rate-Limited Fetcher: the per-host limiter.  Each element of Calls is   *)
(* one invocation of withHostLimit by fetchStreamWithBackoff; a call that  *)
(* holds a slot is running its request.                                    *)
(***************************************************************************)
Calls == 1..MaxCalls
Hostnames == {<<"i", "4cdn", "org">>, <<"example", "com">>}
DefaultLimit == 4
CdnLimit == 1

EndsWith(h, suffix) ==
  /\ Len(h) >= Len(suffix)
  /\ SubSeq(h, Len(h) - Len(suffix) + 1, Len(h)) = suffix

\* hostLimit of fetchStreamWithBackoff.
HostLimitFor(hostname) ==
  IF EndsWith(hostname, <<"4cdn", "org">>) THEN CdnLimit ELSE DefaultLimit

\* waited records that the call was started from the queue.
IdleCall == [pc |-> "idle", host |-> <<>>, waited |-> FALSE]

\* The entry of hostname, created on first use; the limit is set on every call.
EntryFor(hostname, limit) ==
  IF hostname \in DOMAIN hostLimits
  THEN [hostLimits[hostname] EXCEPT !.limit = limit]
  ELSE [active |-> 0, queue |-> <<>>, limit |-> limit]

\* Faulty variant: acquire admits a call while active equals the limit.
HasFreeSlotOffByOne(entry) == entry.active <= entry.limit

HasFreeSlot(entry) == entry.active < entry.limit

Max(a, b) == IF a >= b THEN a ELSE b
Min(a, b) == IF a <= b THEN a ELSE b

\* withHostLimit up to the end of acquire: the call takes a free slot or
\* joins the queue.
WithHostLimit(c) ==
  /\ calls[c].pc = "idle"
  /\ \E hostname \in Hostnames :
       LET entry == EntryFor(hostname, HostLimitFor(hostname))
       IN IF HasFreeSlot(entry)
          THEN /\ hostLimits' = (hostname :> [entry EXCEPT !.active = @ + 1]) @@ hostLimits
               /\ calls' = [calls EXCEPT ![c] = [pc |-> "running", host |-> hostname,
                                                waited |-> FALSE]]
          ELSE /\ hostLimits' = (hostname :> [entry EXCEPT !.queue = Append(@, c)]) @@ hostLimits
               /\ calls' = [calls EXCEPT ![c] = [pc |-> "queued", host |-> hostname,
                                                waited |-> FALSE]]
  /\ UNCHANGED <<mainVars, poll, fetchVars, res, matchVars>>

\* Faulty variant: release starts the call that was queued last.
TaskSettlesNewestFirst(c) ==
  /\ calls[c].pc = "running"
  /\ LET hostname == calls[c].host
         entry == hostLimits[hostname]
         freed == [entry EXCEPT !.active = Max(0, @ - 1)]
     IN IF freed.queue # <<>>
        THEN LET next == freed.queue[Len(freed.queue)]
             IN /\ hostLimits' = [hostLimits EXCEPT ![hostname] =
                                    [freed EXCEPT !.queue = SubSeq(@, 1, Len(@) - 1),
                                                  !.active = @ + 1]]
                /\ calls' = [calls EXCEPT ![c] = IdleCall, ![next].pc = "running",
                                           ![next].waited = TRUE]
        ELSE /\ hostLimits' = [hostLimits EXCEPT ![hostname] = freed]
             /\ calls' = [calls EXCEPT ![c] = IdleCall]
  /\ UNCHANGED <<mainVars, poll, fetchVars, res, matchVars>>

\* Faulty variant: release frees the slot and leaves the queue alone.
TaskSettlesNoHandOver(c) ==
  /\ calls[c].pc = "running"
  /\ LET hostname == calls[c].host
         entry == hostLimits[hostname]
     IN /\ hostLimits' = [hostLimits EXCEPT ![hostname].active = Max(0, @ - 1)]
        /\ calls' = [calls EXCEPT ![c] = IdleCall]
  /\ UNCHANGED <<mainVars, poll, fetchVars, res, matchVars>>

\* The request of c settles (response or failure) and the finally block
\* releases the slot, handing it to the head of the queue.
TaskSettles(c) ==
  /\ calls[c].pc = "running"
  /\ LET hostname == calls[c].host
         entry == hostLimits[hostname]
         freed == [entry EXCEPT !.active = Max(0, @ - 1)]
     IN IF freed.queue # <<>>
        THEN LET next == Head(freed.queue)
             IN /\ hostLimits' = [hostLimits EXCEPT ![hostname] =
                                    [freed EXCEPT !.queue = Tail(@), !.active = @ + 1]]
                /\ calls' = [calls EXCEPT ![c] = IdleCall, ![next].pc = "running",
                                           ![next].waited = TRUE]
        ELSE /\ hostLimits' = [hostLimits EXCEPT ![hostname] = freed]
             /\ calls' = [calls EXCEPT ![c] = IdleCall]
  /\ UNCHANGED <<mainVars, poll, fetchVars, res, matchVars>>

NextLimiter == \E c \in Calls : WithHostLimit(c) \/ TaskSettles(c)

Running(hostname) == {c \in Calls : calls[c].pc = "running" /\ calls[c].host = hostname}

C2_Cap ==
  \A hostname \in DOMAIN hostLimits :
    /\ hostLimits[hostname].limit = HostLimitFor(hostname)
    /\ hostLimits[hostname].active = Cardinality(Running(hostname))
    /\ Cardinality(Running(hostname)) <= HostLimitFor(hostname)

C2_Queueing ==
  \A c \in Calls :
    /\ (calls[c].pc = "idle" /\ calls'[c].pc # "idle") =>
         (calls'[c].pc = "queued" <=>
            Cardinality(Running(calls'[c].host)) >= HostLimitFor(calls'[c].host))
    /\ (calls[c].pc = "queued" /\ calls'[c].pc # "queued") =>
         \E d \in Calls \ {c} :
           /\ calls[d].host = calls[c].host
           /\ calls[d].pc = "running" /\ calls'[d].pc = "idle"

\* C2: for every hostname the number of requests running inside its limiter
\* never exceeds the host's limit (4, or 1 for hosts ending in 4cdn.org); a
\* call arriving when the limit is reached is queued and starts only when an
\* earlier request completes and releases its slot.
C2_HostCap == []C2_Cap /\ [][C2_Queueing]_vars

C2_Witness ==
  \E hostname \in DOMAIN hostLimits :
    /\ HostLimitFor(hostname) = DefaultLimit
    /\ Cardinality(Running(hostname)) = DefaultLimit
    /\ Len(hostLimits[hostname].queue) >= 1

(***************************************************************************)
(* Rate-Limited Fetcher: one call of fetchStreamWithBackoff.  Time is in   *)
(* milliseconds.  A request is issued when its attempt starts; the wait    *)
(* for a limiter slot only adds to the time that passes before it.         *)
(***************************************************************************)
Base429 == 1000
BaseFailure == 500
Jitter429 == 250
JitterFailure == 200
ShiftCap == 3
MsPerSecond == 1000

Error429 == "HTTP 429 Too Many Requests"
ErrorUnexpected == "Unexpected status"
ErrorRequest == "request failed"
ErrorNoAttempt == "Failed to fetch stream"

NoErr == <<"none", 0>>
NoOutcome == [kind |-> "none", status |-> 0, ra |-> 0, at |-> 0]

\* What a request can end with: a status axios accepts (below 500, or 429),
\* with the Retry-After seconds of a 429 (0: no header), or a thrown error
\* (no response, or a status from 500 on).
Outcomes ==
  {[kind |-> "response", status |-> st, ra |-> 0] : st \in {200, 404}}
    \cup {[kind |-> "response", status |-> 429, ra |-> ra] : ra \in 0..MaxRetryAfter}
    \cup {[kind |-> "error", status |-> st, ra |-> 0] : st \in {0, 503}}

IdleFetch ==
  [pc |-> "idle", maxRetries |-> 0, attempt |-> 0, requests |-> 0, issuedAt |-> 0,
   wakeAt |-> 0, lastErr |-> NoErr, thrown |-> NoErr, last |-> NoOutcome,
   issuedAfter |-> NoOutcome, all429 |-> TRUE, allFailed |-> TRUE]

RECURSIVE Shl(_, _)
Shl(x, n) == IF n = 0 THEN x ELSE Shl(2 * x, n - 1)

\* Faulty variant: Retry-After is taken as milliseconds.
RetryDelay429Millis(ra, attempt, jitter) ==
  IF ra > 0 THEN ra ELSE Shl(Base429, Min(attempt, ShiftCap)) + jitter

RetryDelay429(ra, attempt, jitter) ==
  IF ra > 0 THEN ra * MsPerSecond ELSE Shl(Base429, Min(attempt, ShiftCap)) + jitter

FailureDelay(attempt, jitter) == Shl(BaseFailure, Min(attempt, ShiftCap)) + jitter

Sleep(f, delay) == [f EXCEPT !.pc = "sleeping", !.wakeAt = now + delay]

\* The catch block of the attempt: e is the error, status its response status.
Catch(f, e, status, ra, j429, jf) ==
  LET g == [f EXCEPT !.lastErr = <<e, f.attempt>>]
  IN IF status = 429 /\ f.attempt < f.maxRetries
     THEN Sleep(g, RetryDelay429(ra, f.attempt, j429))
     ELSE IF f.attempt = f.maxRetries
          THEN [g EXCEPT !.pc = "failed", !.thrown = g.lastErr]
          ELSE Sleep(g, FailureDelay(f.attempt, jf))

\* Faulty variant: the last attempt's 429 is not turned into an error.
OnResponseNoFinalThrow(f, r, j429, jf) ==
  IF r.status = 429
  THEN Sleep(f, RetryDelay429(r.ra, f.attempt, j429))
  ELSE IF r.status >= 200 /\ r.status < 300
       THEN [f EXCEPT !.pc = "returned"]
       ELSE Catch(f, ErrorUnexpected, 0, 0, j429, jf)

\* The body of the try block once axios has resolved with response r.
OnResponse(f, r, j429, jf) ==
  IF r.status = 429
  THEN IF f.attempt = f.maxRetries
       THEN Catch(f, Error429, 0, 0, j429, jf)
       ELSE Sleep(f, RetryDelay429(r.ra, f.attempt, j429))
  ELSE IF r.status >= 200 /\ r.status < 300
       THEN [f EXCEPT !.pc = "returned"]
       ELSE Catch(f, ErrorUnexpected, 0, 0, j429, jf)

\* fetchStreamWithBackoff(url, headers, maxRetries) issues its first request.
FetchStart ==
  /\ fetch.pc = "idle"
  /\ \E maxRetries \in 0..MaxRetriesArg :
       fetch' = [IdleFetch EXCEPT !.pc = "inflight", !.maxRetries = maxRetries,
                                  !.requests = 1, !.issuedAt = now]
  /\ UNCHANGED <<mainVars, poll, limVars, now, res, matchVars>>

\* The request in flight settles.
FetchSettles ==
  /\ fetch.pc = "inflight"
  /\ \E out \in Outcomes, j429 \in {0, Jitter429 - 1}, jf \in {0, JitterFailure - 1} :
       LET f == [fetch EXCEPT
                   !.last = [kind |-> out.kind, status |-> out.status,
                             ra |-> out.ra, at |-> now],
                   !.all429 = @ /\ out.kind = "response" /\ out.status = 429,
                   !.allFailed = @ /\ out.kind = "error"]
       IN fetch' = IF out.kind = "response"
                   THEN OnResponse(f, out, j429, jf)
                   ELSE Catch(f, ErrorRequest, out.status, out.ra, j429, jf)
  /\ UNCHANGED <<mainVars, poll, limVars, now, res, matchVars>>

\* The sleep ends: the loop goes to its next attempt, or ends.
FetchWakes ==
  /\ fetch.pc = "sleeping"
  /\ now >= fetch.wakeAt
  /\ fetch' = IF fetch.attempt + 1 <= fetch.maxRetries
              THEN [fetch EXCEPT !.pc = "inflight", !.attempt = @ + 1,
                                 !.requests = @ + 1, !.issuedAt = now,
                                 !.issuedAfter = fetch.last]
              ELSE [fetch EXCEPT !.pc = "failed", !.attempt = @ + 1,
                                 !.thrown = IF fetch.lastErr # NoErr THEN fetch.lastErr
                                            ELSE <<ErrorNoAttempt, fetch.attempt>>]
  /\ UNCHANGED <<mainVars, poll, limVars, now, res, matchVars>>

\* Time passes while the call is pending.
Tick ==
  /\ fetch.pc \in {"inflight", "sleeping"}
  /\ now + TickMs <= MaxTime
  /\ now' = now + TickMs
  /\ UNCHANGED <<mainVars, poll, limVars, fetch, res, matchVars>>

NextFetch == FetchStart \/ FetchSettles \/ FetchWakes \/ Tick

\* C7: after a 429 with Retry-After: n (n > 0) on an attempt that is not the
\* last, the next request is issued no earlier than n seconds after that
\* response, whatever the attempt number.
C7_RetryAfterHonoured ==
  (fetch.requests >= 2 /\ fetch.issuedAfter.status = 429 /\ fetch.issuedAfter.ra > 0) =>
    fetch.issuedAt >= fetch.issuedAfter.at + fetch.issuedAfter.ra * 1000

C7_Witness ==
  /\ fetch.attempt >= 2
  /\ fetch.pc = "inflight"
  /\ fetch.issuedAfter.status = 429
  /\ fetch.issuedAfter.ra = 2
  /\ fetch.issuedAt = fetch.issuedAfter.at + 2000

\* C8: the call issues at most maxRetries + 1 requests and then returns a
\* response or fails; answered with 429 on every attempt it fails with the
\* error naming 429, and failing at request level on every attempt it fails
\* with the error of the last attempt.
C8_BoundedRetries ==
  /\ fetch.requests <= fetch.maxRetries + 1
  /\ fetch.pc = "returned" => fetch.last.status = 200
  /\ fetch.pc = "failed" =>
       /\ fetch.requests = fetch.maxRetries + 1
       /\ fetch.all429 => fetch.thrown[1] = Error429
       /\ fetch.allFailed => fetch.thrown = <<ErrorRequest, fetch.maxRetries>>
  /\ fetch.pc \in {"inflight", "sleeping"} => fetch.attempt <= fetch.maxRetries

C8_Witness ==
  /\ fetch.pc = "failed"
  /\ fetch.all429
  /\ fetch.maxRetries = 3
  /\ fetch.requests = 4

(***************************************************************************)
(* Similarity Matcher: frame hashes are hex strings, modelled as sequences *)
(* of hex digits; a frame-hash sequence is a sequence of them.  Numbers    *)
(* that the code computes by division are kept as fractions num/den, with  *)
(* Infinity and NaN as kinds of their own.                                 *)
(***************************************************************************)
HexDigits == <<"0", "1", "2", "3", "4", "5", "6", "7",
               "8", "9", "a", "b", "c", "d", "e", "f">>

HexValue == [c \in {HexDigits[i] : i \in 1..16} |-> (CHOOSE i \in 1..16 : HexDigits[i] = c) - 1]

\* parseInt(c, 16) of one hex digit.
ParseHex(c) == HexValue[c]

BitAt(x, k) == (x \div (2 ^ k)) % 2

\* x ^ y on four-bit values.
Xor4(x, y) ==
  LET b(k) == IF BitAt(x, k) = BitAt(y, k) THEN 0 ELSE 1
  IN b(0) + 2 * b(1) + 4 * b(2) + 8 * b(3)

\* Faulty variant: the highest bit of the nibble is not counted.
NibbleDistanceThreeBits ==
  [x \in 0..15 |->
     [y \in 0..15 |->
        LET z == Xor4(x, y) IN BitAt(z, 0) + BitAt(z, 1) + BitAt(z, 2)]]

\* The bits set in x ^ y, for every pair of four-bit values.
NibbleDistance ==
  [x \in 0..15 |->
     [y \in 0..15 |->
        LET z == Xor4(x, y) IN BitAt(z, 0) + BitAt(z, 1) + BitAt(z, 2) + BitAt(z, 3)]]

RECURSIVE hammingHexFrom(_, _, _)
hammingHexFrom(a, b, i) ==
  IF i > Len(a) THEN 0
  ELSE NibbleDistance[ParseHex(a[i])][ParseHex(b[i])] + hammingHexFrom(a, b, i + 1)

hammingHex(a, b) == hammingHexFrom(a, b, 1)

\* Hash strings of one digit, and wider ones over a few digits.
HamDigits == {"0", "1", "6", "8", "f"}
HashStrings ==
  {<<HexDigits[i]>> : i \in 1..16} \cup (SeqsUpTo(HamDigits, MaxWidth) \ {<<>>})

NoHam == [called |-> FALSE, a |-> <<>>, b |-> <<>>, ab |-> 0, ba |-> 0, aa |-> 0]

\* hammingHex applied to two hashes of the same width, both ways round, and
\* to the first against itself.
HammingHex ==
  /\ ~ham.called
  /\ \E a \in HashStrings, b \in HashStrings :
       /\ Len(a) = Len(b)
       /\ ham' = [called |-> TRUE, a |-> a, b |-> b, ab |-> hammingHex(a, b),
                  ba |-> hammingHex(b, a), aa |-> hammingHex(a, a)]
  /\ UNCHANGED <<oldVars, gen, pipe, rg, lastVars>>

Infinity == [kind |-> "inf", num |-> 0, den |-> 1]
NaN == [kind |-> "nan", num |-> 0, den |-> 1]

\* sum / n for integers sum >= 0 and n >= 0.
Quotient(sum, n) ==
  IF n = 0 THEN (IF sum = 0 THEN NaN ELSE Infinity)
  ELSE [kind |-> "num", num |-> sum, den |-> n]

\* x <= y on these numbers; every comparison with NaN is false.
Leq(x, y) ==
  CASE x.kind = "nan" \/ y.kind = "nan" -> FALSE
    [] y.kind = "inf" -> TRUE
    [] x.kind = "inf" -> FALSE
    [] OTHER -> x.num * y.den <= y.num * x.den

\* Math.min(x, y): NaN when either is NaN.
MathMin(x, y) ==
  CASE x.kind = "nan" -> NaN
    [] y.kind = "nan" -> NaN
    [] Leq(x, y) -> x
    [] OTHER -> y

RECURSIVE WindowSum(_, _, _, _)
WindowSum(needle, haystack, start, i) ==
  IF i >= Len(needle) THEN 0
  ELSE hammingHex(needle[i + 1], haystack[start + i + 1])
         + WindowSum(needle, haystack, start, i + 1)

\* Faulty variant: the last alignment is left out.
LastStartExclusive(needle, haystack) == Len(haystack) - Len(needle) - 1

\* The last window start of the loop.
LastStart(needle, haystack) == Len(haystack) - Len(needle)

\* The loop over the window starts; best is assigned, hence evaluated, in
\* every iteration.
RECURSIVE BestFrom(_, _, _, _)
BestFrom(needle, haystack, start, best) ==
  IF start > LastStart(needle, haystack) THEN best
  ELSE LET next == MathMin(best, Quotient(WindowSum(needle, haystack, start, 0),
                                          Len(needle)))
       IN IF next.kind = "nan"
          THEN BestFrom(needle, haystack, start + 1, NaN)
          ELSE BestFrom(needle, haystack, start + 1, next)

bestWindowAvgHamming(needle, haystack) ==
  IF Len(haystack) < Len(needle) THEN Infinity
  ELSE BestFrom(needle, haystack, 0, Infinity)

\* Frame hashes and sequences the window score is applied to.
WindowHashes == {<<"0", "0">>, <<"0", "f">>, <<"3", "7">>, <<"f", "f">>}
Needles == SeqsUpTo(WindowHashes, MaxNeedle)
Haystacks == SeqsUpTo(WindowHashes, MaxHaystack)

NoWin == [called |-> FALSE, needle |-> <<>>, haystack |-> <<>>, out |-> Infinity]

\* One call of bestWindowAvgHamming.
BestWindow ==
  /\ ~win.called
  /\ \E needle \in Needles, haystack \in Haystacks :
       win' = [called |-> TRUE, needle |-> needle, haystack |-> haystack,
               out |-> bestWindowAvgHamming(needle, haystack)]
  /\ UNCHANGED <<mainVars, poll, limVars, fetchVars, res, match, laterVars>>

\* The number of bit positions in which two hashes of equal width differ.
BitDistance(a, b) ==
  Cardinality({<<i, k>> \in (1..Len(a)) \X (0..3) :
                 BitAt(ParseHex(a[i]), k) # BitAt(ParseHex(b[i]), k)})

RECURSIVE SumOver(_, _)
SumOver(f, S) ==
  IF S = {} THEN 0
  ELSE LET x == CHOOSE x \in S : TRUE IN f[x] + SumOver(f, S \ {x})

\* The sum of the per-position distances of the alignment at offset s.
AlignmentSum(needle, haystack, s) ==
  SumOver([i \in 1..Len(needle) |-> BitDistance(needle[i], haystack[s + i])],
          1..Len(needle))

Alignments(needle, haystack) == 0..(Len(haystack) - Len(needle))

\* C20: for 1 <= |needle| <= |haystack| the score is a number >= 0, it is the
\* average distance of some alignment and no alignment has a lower one, and it
\* is 0 when the needle occurs in the haystack as a contiguous subsequence.
C20_BestWindow ==
  (win.called /\ 1 <= Len(win.needle) /\ Len(win.needle) <= Len(win.haystack)) =>
    LET n == Len(win.needle)
        sums == {AlignmentSum(win.needle, win.haystack, s) :
                   s \in Alignments(win.needle, win.haystack)}
    IN /\ win.out.kind = "num"
       /\ win.out.den = n
       /\ win.out.num >= 0
       /\ win.out.num \in sums
       /\ \A x \in sums : win.out.num <= x
       /\ (\E s \in Alignments(win.needle, win.haystack) :
             SubSeq(win.haystack, s + 1, s + n) = win.needle) => win.out.num = 0

C20_Witness ==
  /\ win.called
  /\ Len(win.needle) = 2
  /\ Len(win.haystack) = 3
  /\ SubSeq(win.haystack, 2, 3) = win.needle
  /\ SubSeq(win.haystack, 1, 2) # win.needle
  /\ win.out = [kind |-> "num", num |-> 0, den |-> 2]

\* The bits of one hex digit, highest first, read from the digit's numeral.
DigitBits ==
  [c \in {HexDigits[i] : i \in 1..16} |->
     CASE c = "0" -> <<0, 0, 0, 0>> [] c = "1" -> <<0, 0, 0, 1>>
       [] c = "2" -> <<0, 0, 1, 0>> [] c = "3" -> <<0, 0, 1, 1>>
       [] c = "4" -> <<0, 1, 0, 0>> [] c = "5" -> <<0, 1, 0, 1>>
       [] c = "6" -> <<0, 1, 1, 0>> [] c = "7" -> <<0, 1, 1, 1>>
       [] c = "8" -> <<1, 0, 0, 0>> [] c = "9" -> <<1, 0, 0, 1>>
       [] c = "a" -> <<1, 0, 1, 0>> [] c = "b" -> <<1, 0, 1, 1>>
       [] c = "c" -> <<1, 1, 0, 0>> [] c = "d" -> <<1, 1, 0, 1>>
       [] c = "e" -> <<1, 1, 1, 0>> [] c = "f" -> <<1, 1, 1, 1>>]

DifferingBits(a, b) ==
  Cardinality({<<i, k>> \in (1..Len(a)) \X (1..4) :
                 DigitBits[a[i]][k] # DigitBits[b[i]][k]})

ShortFrames == 20
LooseThreshold == 24
TightThreshold == 12
LongerByMs == 500

Null(v) == [null |-> TRUE, value |-> v]
Some(v) == [null |-> FALSE, value |-> v]

Number(n) == [kind |-> "num", num |-> n, den |-> 1]

\* x?.length || 0
LengthOrZero(q) == IF q.null THEN 0 ELSE Len(q.value)

\* x ?? 0
OrZero(d) == IF d.null THEN 0 ELSE d.value

\* Faulty variant: a sequence of exactly ShortFrames frames is not short.
IsShortExclusive(newLen) == newLen > 0 /\ newLen < ShortFrames

IsShort(newLen) == newLen > 0 /\ newLen <= ShortFrames

ThresholdFor(newLen) == IF IsShort(newLen) THEN LooseThreshold ELSE TightThreshold

\* Faulty variant: the candidate must be more than LongerByMs longer.
LongerByDurationStrict(newFile, cand) ==
  OrZero(cand.durationMs) > OrZero(newFile.durationMs) + LongerByMs

LongerByDuration(newFile, cand) ==
  OrZero(cand.durationMs) >= OrZero(newFile.durationMs) + LongerByMs

\* The body of the loop for one candidate: the reason it is returned for, or
\* "none" when the loop goes on.
MatchCandidate(newFile, cand) ==
  LET newLen == LengthOrZero(newFile.frameHashSequence)
      candLen == LengthOrZero(cand.frameHashSequence)
      bothHaveFrames == ~newFile.frameHashSequence.null /\ ~cand.frameHashSequence.null
      avg == bestWindowAvgHamming(newFile.frameHashSequence.value,
                                  cand.frameHashSequence.value)
      candIsLongerByFrames == candLen > newLen /\ newLen > 0
      considerLonger ==
        (candIsLongerByFrames \/ LongerByDuration(newFile, cand)) /\ bothHaveFrames
  IN IF /\ ~newFile.hasAudio /\ cand.hasAudio /\ bothHaveFrames
        /\ Leq(avg, Number(ThresholdFor(newLen)))
     THEN "audio"
     ELSE IF considerLonger /\ Leq(avg, Number(ThresholdFor(newLen)))
          THEN "longer"
          ELSE "none"

NoParent == [found |-> FALSE, id |-> 0, reason |-> "none"]

RECURSIVE MatchFrom(_, _, _)
MatchFrom(newFile, candidates, i) ==
  IF i > Len(candidates) THEN NoParent
  ELSE IF candidates[i].id = newFile.id THEN MatchFrom(newFile, candidates, i + 1)
  ELSE LET reason == MatchCandidate(newFile, candidates[i])
       IN IF reason # "none"
          THEN [found |-> TRUE, id |-> candidates[i].id, reason |-> reason]
          ELSE MatchFrom(newFile, candidates, i + 1)

\* Faulty variant: the stored assets are read oldest first.
RECURSIVE FindOldestFirst(_)
FindOldestFirst(stored) ==
  IF stored = {} THEN <<>>
  ELSE LET first == CHOOSE f \in stored : \A g \in stored : f.uploadedAt <= g.uploadedAt
       IN <<first>> \o FindOldestFirst(stored \ {first})

\* fileRepository.find({ order: { uploadedAt: 'DESC' } })
RECURSIVE FindNewestFirst(_)
FindNewestFirst(stored) ==
  IF stored = {} THEN <<>>
  ELSE LET first == CHOOSE f \in stored : \A g \in stored : f.uploadedAt >= g.uploadedAt
       IN <<first>> \o FindNewestFirst(stored \ {first})

findParentMatch(newFile, stored) == MatchFrom(newFile, FindNewestFirst(stored), 1)

\* The notification the pipeline issues for the result of findParentMatch.
MatchNotification(out) == IF out.found THEN MatchNote(out.reason) ELSE "none"

\* Frame hashes of 28 bits at distance 0, 3, 12, 13, 24 and 25 from the first.
Hash00 == <<"0", "0", "0", "0", "0", "0", "0">>
Hash03 == <<"0", "0", "0", "0", "0", "0", "7">>
Hash12 == <<"0", "0", "0", "0", "f", "f", "f">>
Hash13 == <<"0", "0", "0", "1", "f", "f", "f">>
Hash24 == <<"0", "f", "f", "f", "f", "f", "f">>
Hash25 == <<"1", "f", "f", "f", "f", "f", "f">>

Rep(h, n) == [i \in 1..n |-> h]

\* Thirty frames near the new asset's, between ten far frames on either side.
Sandwich == Rep(Hash25, 10) \o Rep(Hash03, 30) \o Rep(Hash25, 10)

\* Frame counts around the bound of a short sequence.
FrameCounts == {1, ShortFrames, ShortFrames + 1}
NewFrameCounts == {ShortFrames - 5, ShortFrames, ShortFrames + 1}

NewSequences ==
  {Null(<<>>), Some(<<>>), Some(Rep(Hash00, 30))}
    \cup {Some(Rep(Hash00, n)) : n \in NewFrameCounts}

CandidateSequences ==
  {Null(<<>>), Some(<<>>), Some(Rep(Hash24, ShortFrames - 5)), Some(Sandwich)}
    \cup {Some(Rep(h, n)) : h \in {Hash12, Hash13, Hash24, Hash25}, n \in FrameCounts}

\* The new asset, the candidates examined one at a time, and the short
\* candidates stored several at a time.
NewFiles ==
  [hasAudio : BOOLEAN, durationMs : {Null(0), Some(1000)},
   frameHashSequence : NewSequences]

Candidates ==
  [hasAudio : BOOLEAN, durationMs : {Null(0), Some(1499), Some(1500)},
   frameHashSequence : CandidateSequences]

FewCandidates ==
  {[hasAudio |-> TRUE, durationMs |-> Null(0),
    frameHashSequence |-> Some(Rep(Hash12, ShortFrames - 5))],
   [hasAudio |-> FALSE, durationMs |-> Null(0),
    frameHashSequence |-> Some(Rep(Hash24, ShortFrames - 4))],
   [hasAudio |-> TRUE, durationMs |-> Null(0),
    frameHashSequence |-> Some(Rep(Hash25, ShortFrames - 5))],
   [hasAudio |-> FALSE, durationMs |-> Some(1500), frameHashSequence |-> Null(<<>>)]}

CandidateLists ==
  {<<c>> : c \in Candidates} \cup SeqsUpTo(FewCandidates, MaxCandidates)

\* The repository in which the assets of list were uploaded in this order,
\* the new asset as the at-th of them.
Stored(newFile, list, at) ==
  LET n == Len(list) + 1
      File(k) == IF k = at THEN newFile
                 ELSE IF k < at THEN list[k] ELSE list[k - 1]
  IN {[id |-> k, uploadedAt |-> k, hasAudio |-> File(k).hasAudio,
       durationMs |-> File(k).durationMs,
       frameHashSequence |-> File(k).frameHashSequence] : k \in 1..n}

NoMatch == [called |-> FALSE, newId |-> 0, stored |-> {}, out |-> NoParent, note |-> "none"]

\* The places the new asset can have in the upload order.
Places(list) == IF list \in SeqsUpTo(FewCandidates, MaxCandidates)
                THEN 1..(Len(list) + 1) ELSE {Len(list) + 1}

\* The pipeline re-reads the saved asset, calls findParentMatch and notifies.
FindParentMatch ==
  /\ ~match.called
  /\ \E newFile \in NewFiles, list \in CandidateLists :
       \E at \in Places(list) :
         LET stored == Stored(newFile, list, at)
             updated == CHOOSE f \in stored : f.id = at
             out == findParentMatch(updated, stored)
         IN match' = [called |-> TRUE, newId |-> at, stored |-> stored, out |-> out,
                      note |-> MatchNotification(out)]
  /\ UNCHANGED <<mainVars, poll, limVars, fetchVars, res, win, laterVars>>

\* The repository of Stored with an owner for every asset.
OwnedBy(stored, owner) ==
  {[id |-> f.id, uploadedAt |-> f.uploadedAt, hasAudio |-> f.hasAudio,
    durationMs |-> f.durationMs, frameHashSequence |-> f.frameHashSequence,
    ownerId |-> owner[f.id]] : f \in stored}

\* The same step of the pipeline in a repository that holds the assets of
\* several users.
FindParentMatchOwned ==
  /\ ~match.called
  /\ \E newFile \in NewFiles, list \in SeqsUpTo(FewCandidates, MaxCandidates) :
       \E at \in Places(list), owner \in [1..(Len(list) + 1) -> Owners] :
         LET stored == OwnedBy(Stored(newFile, list, at), owner)
             updated == CHOOSE f \in stored : f.id = at
             out == findParentMatch(updated, stored)
         IN match' = [called |-> TRUE, newId |-> at, stored |-> stored, out |-> out,
                      note |-> MatchNotification(out)]
  /\ UNCHANGED <<mainVars, poll, limVars, fetchVars, res, win, laterVars>>

MatchHashes == {Hash00, Hash03, Hash12, Hash13, Hash24, Hash25}

FrameDistance == [a \in MatchHashes |-> [b \in MatchHashes |-> BitDistance(a, b)]]

\* The sum of the per-frame distances of the window of c that starts after
\* offset s, against n.
DistanceSum(n, c, s) ==
  SumOver([i \in 1..Len(n) |-> FrameDistance[n[i]][c[s + i]]], 1..Len(n))

NewAsset == CHOOSE f \in match.stored : f.id = match.newId
OtherAssets == {f \in match.stored : f.id # match.newId}
Frames(f) == f.frameHashSequence.value
FrameCount(f) == IF f.frameHashSequence.null THEN 0 ELSE Len(Frames(f))

\* Some window of c of the length of n averages at most 24 when n has 1 to
\* 20 frames, at most 12 otherwise.
VisuallyClose(n, c) ==
  /\ ~n.frameHashSequence.null /\ ~c.frameHashSequence.null
  /\ FrameCount(n) >= 1
  /\ \E s \in 0..(FrameCount(c) - FrameCount(n)) :
       DistanceSum(Frames(n), Frames(c), s)
         <= (IF FrameCount(n) <= 20 THEN 24 ELSE 12) * FrameCount(n)

AudioVariant(n, c) == ~n.hasAudio /\ c.hasAudio /\ VisuallyClose(n, c)

\* A duration that is not known counts as 0.
LongerVariant(n, c) ==
  /\ \/ FrameCount(c) > FrameCount(n)
     \/ OrZero(c.durationMs) >= OrZero(n.durationMs) + 500
  /\ VisuallyClose(n, c)

Qualifies(c) == AudioVariant(NewAsset, c) \/ LongerVariant(NewAsset, c)

\* No asset uploaded after c qualifies.
FirstInOrder(c) ==
  \A g \in OtherAssets : g.uploadedAt > c.uploadedAt => ~Qualifies(g)

Reported(c, reason) == match.out = [found |-> TRUE, id |-> c.id, reason |-> reason]

\* The least window sum of c against the new asset.
BestSum(c) ==
  LET sums == {DistanceSum(Frames(NewAsset), Frames(c), s) :
                 s \in 0..(FrameCount(c) - FrameCount(NewAsset))}
  IN CHOOSE x \in sums : \A y \in sums : x <= y

\* C17: a candidate that no more recent qualifying asset precedes is reported
\* with reason audio exactly when the new asset has no audio, the candidate
\* has, both have frames and some window of the candidate is within the
\* threshold (24 for 1 to 20 new frames, else 12); a candidate with fewer
\* frames than the new asset is never reported.
C17_AudioVariant ==
  match.called =>
    \A c \in OtherAssets :
      /\ FirstInOrder(c) => (Reported(c, "audio") <=> AudioVariant(NewAsset, c))
      /\ FrameCount(c) < FrameCount(NewAsset) => match.out.id # c.id

C17_Witness ==
  /\ match.called
  /\ FrameCount(NewAsset) = 15
  /\ \E c \in OtherAssets : FrameCount(c) = 15 /\ Reported(c, "audio")

\* C18: a candidate that no more recent qualifying asset precedes and that is
\* no audio variant is reported with reason longer exactly when both have
\* frames, the candidate has more frames or lasts at least 500 ms longer, and
\* some window of the candidate is within the same threshold.
C18_LongerVariant ==
  match.called =>
    \A c \in OtherAssets :
      (FirstInOrder(c) /\ ~AudioVariant(NewAsset, c)) =>
        (Reported(c, "longer") <=> LongerVariant(NewAsset, c))

C18_Witness ==
  /\ match.called
  /\ FrameCount(NewAsset) = 30
  /\ \E c \in OtherAssets :
       /\ FrameCount(c) = 50
       /\ Reported(c, "longer")
       /\ BestSum(c) = 3 * 30

\* C19: the asset returned is the most recently uploaded one that
\* qualifies, never the new asset itself; when none qualifies nothing is
\* returned and no match notification is issued.
C19_FirstMatch ==
  match.called =>
    /\ match.out.found =>
         /\ match.out.id # match.newId
         /\ \E c \in OtherAssets :
              match.out.id = c.id /\ Qualifies(c) /\ FirstInOrder(c)
         /\ match.note = MatchNote(match.out.reason)
    /\ ~match.out.found =>
         /\ \A c \in OtherAssets : ~Qualifies(c)
         /\ match.note = "none"

C19_Witness ==
  /\ match.called
  /\ match.out.found
  /\ \E c \in OtherAssets, d \in OtherAssets :
       /\ c.id = match.out.id
       /\ Qualifies(d)
       /\ d.uploadedAt < c.uploadedAt
       /\ BestSum(d) < BestSum(c)

(***************************************************************************)
(* Derivative pipeline: one call of uploadFile from its duplicate lookup   *)
(* to the end of the background task it starts, one action per await.      *)
(*   mime     the content type of the upload; audio/webm stands for a file  *)
(*            named .webm whose declared type is not video/webm            *)
(*   files    the scratch files on disk: the source file, the thumbnail of *)
(*            the request path, the thumbnail of processFile, the mp4      *)
(*   stored   the keys written to the blob store                           *)
(*   record   the asset's row, once saved                                  *)
(*   started  the derivative steps in the order in which they started      *)
(*   failed   the awaited calls that failed                                *)
(*   runs     how often the background task was started                    *)
(***************************************************************************)
MimeTypes == {"video/webm", "audio/webm", "video/mp4", "image/png"}

\* uploadContentType.startsWith('video/') || uploadContentType === 'image/gif'
ShouldGenerateThumbnail(m) == m \in {"video/webm", "video/mp4"}

\* (processing.mimeType || savedFile.mimeType).includes('webm') || the name
\* ends in .webm
IsWebm(m) == m \in {"video/webm", "audio/webm"}

\* transcodeStatus of the new entity.
InitialTranscodeStatus(m) == IF m = "video/webm" THEN "pending" ELSE "null"

NoRecord == [saved |-> FALSE, transcodeStatus |-> "null", mp4Key |-> FALSE,
             hashUpdated |-> FALSE, fingerprintWritten |-> FALSE]

NoPipe == [pc |-> "idle", mime |-> "none", files |-> {}, stored |-> {},
           record |-> NoRecord, statusHist |-> <<>>, started |-> <<>>,
           failed |-> {}, result |-> "none", runs |-> 0, note |-> FALSE]

SetTranscodeStatus(p, s) ==
  [p EXCEPT !.record.transcodeStatus = s, !.statusHist = Append(@, s)]

Begin(p, step) == [p EXCEPT !.started = Append(@, step)]

\* The outer catch logs, and the finally block unlinks the source file.
PipeCatch(p, call) ==
  [p EXCEPT !.pc = "ended", !.failed = @ \cup {call}, !.files = @ \ {"source"}]

\* The task ends without a failure; the finally block runs as well.
PipeEnd(p) == [p EXCEPT !.pc = "ended", !.files = @ \ {"source"}]

\* After step 1: the transcode branch for webm, else the call of
\* computeAndStoreFingerprints.
AfterUpdate(p) ==
  IF IsWebm(p.mime) THEN [p EXCEPT !.pc = "tstatus"]
  ELSE [Begin(p, "fingerprint") EXCEPT !.pc = "fingerprint"]

PipeUnchanged == UNCHANGED <<oldVars, ham, gen, rg, lastVars>>

\* uploadFile is called with the file the request stored on disk.
PipeStart ==
  /\ pipe.pc = "idle"
  /\ \E m \in MimeTypes :
       pipe' = [NoPipe EXCEPT !.pc = "find", !.mime = m, !.files = {"source"}]
  /\ PipeUnchanged

\* The quick hash and the duplicate lookup: a hit unlinks the source file
\* and throws, a failed read or lookup throws as it is.
PipeFindOne ==
  /\ pipe.pc = "find"
  /\ \/ pipe' = [pipe EXCEPT !.pc = "ended", !.result = "threw",
                             !.files = @ \ {"source"}]
     \/ pipe' = [pipe EXCEPT !.pc = "ended", !.result = "threw",
                             !.failed = @ \cup {"find"}]
     \/ pipe' = [pipe EXCEPT !.pc = "s3"]
  /\ PipeUnchanged

\* Faulty variant: the background task is started as soon as the blob is stored.
PipeS3StartsTask ==
  /\ pipe.pc = "s3"
  /\ \/ pipe' = [Begin(pipe, "process")
                   EXCEPT !.pc = "process", !.stored = @ \cup {"main"},
                          !.runs = @ + 1]
     \/ pipe' = [pipe EXCEPT !.pc = "ended", !.result = "threw",
                             !.failed = @ \cup {"s3"}, !.files = @ \ {"source"}]
  /\ PipeUnchanged

\* The primary blob-store upload.
PipeS3 ==
  /\ pipe.pc = "s3"
  /\ \/ pipe' = [pipe EXCEPT !.stored = @ \cup {"main"},
                             !.pc = IF ShouldGenerateThumbnail(pipe.mime)
                                    THEN "thumbgen" ELSE "save"]
     \/ pipe' = [pipe EXCEPT !.pc = "ended", !.result = "threw",
                             !.failed = @ \cup {"s3"}, !.files = @ \ {"source"}]
  /\ PipeUnchanged

\* generateVideoThumbnail on the request path; a failure is only logged.
PipeThumbGen ==
  /\ pipe.pc = "thumbgen"
  /\ \/ pipe' = [pipe EXCEPT !.pc = "thumbup", !.files = @ \cup {"thumb"}]
     \/ pipe' = [pipe EXCEPT !.pc = "save", !.failed = @ \cup {"thumbgen"}]
  /\ PipeUnchanged

\* The thumbnail's upload on the request path; the unlink follows the upload
\* inside the same try block.
PipeThumbUp ==
  /\ pipe.pc = "thumbup"
  /\ \/ pipe' = [pipe EXCEPT !.pc = "save", !.stored = @ \cup {"thumbnail"},
                             !.files = @ \ {"thumb"}]
     \/ pipe' = [pipe EXCEPT !.pc = "save", !.failed = @ \cup {"thumbup"}]
  /\ PipeUnchanged

\* fileRepository.save; on success the background task starts and runs to
\* its first await, and uploadFile returns.
PipeSave ==
  /\ pipe.pc = "save"
  /\ \/ pipe' = [Begin(SetTranscodeStatus(pipe, InitialTranscodeStatus(pipe.mime)),
                       "process")
                   EXCEPT !.pc = "process", !.record.saved = TRUE,
                          !.result = "returned", !.runs = @ + 1]
     \/ pipe' = [pipe EXCEPT !.pc = "ended", !.result = "threw",
                             !.failed = @ \cup {"save"}]
  /\ PipeUnchanged

\* processFile settles, with or without a thumbnail file.
PipeProcess ==
  /\ pipe.pc = "process"
  /\ \/ /\ ShouldGenerateThumbnail(pipe.mime) \/ IsWebm(pipe.mime)
        /\ pipe' = [pipe EXCEPT !.pc = "bgthumb", !.files = @ \cup {"bgthumb"}]
     \/ pipe' = [pipe EXCEPT !.pc = "update"]
     \/ pipe' = PipeCatch(pipe, "process")
  /\ PipeUnchanged

\* The upload of processFile's thumbnail; try/finally unlinks the file.
PipeBgThumbUp ==
  /\ pipe.pc = "bgthumb"
  /\ \/ pipe' = [pipe EXCEPT !.pc = "update", !.stored = @ \cup {"thumbnail"},
                             !.files = @ \ {"bgthumb"}]
     \/ pipe' = PipeCatch([pipe EXCEPT !.files = @ \ {"bgthumb"}], "bgthumb")
  /\ PipeUnchanged

\* The record update of step 1; the transcode branch follows for webm.
PipeUpdate ==
  /\ pipe.pc = "update"
  /\ \/ pipe' = [AfterUpdate(pipe) EXCEPT !.record.hashUpdated = TRUE]
     \/ pipe' = PipeCatch(pipe, "update")
  /\ PipeUnchanged

\* update(transcodeStatus: 'processing'); transcodeToMp4 is called next.
PipeStatusProcessing ==
  /\ pipe.pc = "tstatus"
  /\ \/ pipe' = [Begin(SetTranscodeStatus(pipe, "processing"), "transcode")
                   EXCEPT !.pc = "transcode"]
     \/ pipe' = [pipe EXCEPT !.pc = "tfailed", !.failed = @ \cup {"tstatus"}]
  /\ PipeUnchanged

\* transcodeToMp4 settles.
PipeTranscode ==
  /\ pipe.pc = "transcode"
  /\ \/ pipe' = [pipe EXCEPT !.pc = "mp4up", !.files = @ \cup {"mp4"}]
     \/ pipe' = [pipe EXCEPT !.pc = "tfailed", !.failed = @ \cup {"transcode"}]
  /\ PipeUnchanged

\* The upload of the mp4 file.
PipeMp4Up ==
  /\ pipe.pc = "mp4up"
  /\ \/ pipe' = [pipe EXCEPT !.pc = "tready", !.stored = @ \cup {"mp4"}]
     \/ pipe' = [pipe EXCEPT !.pc = "tfailed", !.failed = @ \cup {"mp4up"}]
  /\ PipeUnchanged

\* update(mp4Key, transcodeStatus: 'ready'), then the unlink of the mp4 file
\* and the call of computeAndStoreFingerprints.
PipeStatusReady ==
  /\ pipe.pc = "tready"
  /\ \/ pipe' = [Begin(SetTranscodeStatus(pipe, "ready"), "fingerprint")
                   EXCEPT !.pc = "fingerprint", !.record.mp4Key = TRUE,
                          !.files = @ \ {"mp4"}]
     \/ pipe' = [pipe EXCEPT !.pc = "tfailed", !.failed = @ \cup {"tready"}]
  /\ PipeUnchanged

\* The catch block of the transcode: update(transcodeStatus: 'failed').
PipeStatusFailed ==
  /\ pipe.pc = "tfailed"
  /\ \/ pipe' = [Begin(SetTranscodeStatus(pipe, "failed"), "fingerprint")
                   EXCEPT !.pc = "fingerprint"]
     \/ pipe' = PipeCatch(pipe, "tfailed")
  /\ PipeUnchanged

\* computeAndStoreFingerprints settles; it swallows its own failures.
PipeFingerprint ==
  /\ pipe.pc = "fingerprint"
  /\ \/ pipe' = [pipe EXCEPT !.pc = "fpupdate"]
     \/ pipe' = [pipe EXCEPT !.pc = "fpupdate", !.failed = @ \cup {"fingerprint"}]
  /\ PipeUnchanged

\* The update that writes the fingerprint fields.
PipeFpUpdate ==
  /\ pipe.pc = "fpupdate"
  /\ \/ pipe' = [pipe EXCEPT !.pc = "reread", !.record.fingerprintWritten = TRUE]
     \/ pipe' = PipeCatch(pipe, "fpupdate")
  /\ PipeUnchanged

\* findOne of the saved asset; findParentMatch is called with the row when
\* there is one.
PipeReRead ==
  /\ pipe.pc = "reread"
  /\ \/ pipe' = [Begin(pipe, "match") EXCEPT !.pc = "match"]
     \/ pipe' = PipeEnd(pipe)
     \/ pipe' = PipeCatch(pipe, "reread")
  /\ PipeUnchanged

\* findParentMatch settles: a parent, none, or a failed repository read.
PipeMatch ==
  /\ pipe.pc = "match"
  /\ \/ pipe' = [pipe EXCEPT !.pc = "notify"]
     \/ pipe' = PipeEnd(pipe)
     \/ pipe' = PipeCatch(pipe, "match")
  /\ PipeUnchanged

\* The match notification settles.
PipeNotify ==
  /\ pipe.pc = "notify"
  /\ \/ pipe' = [PipeEnd(pipe) EXCEPT !.note = TRUE]
     \/ pipe' = PipeCatch(pipe, "notify")
  /\ PipeUnchanged

NextPipeline ==
  \/ PipeStart \/ PipeFindOne \/ PipeS3 \/ PipeThumbGen \/ PipeThumbUp \/ PipeSave
  \/ PipeProcess \/ PipeBgThumbUp \/ PipeUpdate
  \/ PipeStatusProcessing \/ PipeTranscode \/ PipeMp4Up \/ PipeStatusReady
  \/ PipeStatusFailed
  \/ PipeFingerprint \/ PipeFpUpdate \/ PipeReRead \/ PipeMatch \/ PipeNotify

(***************************************************************************)
(* resolveRedgifsUrl as a timed process.  rg.now is the time in ms since   *)
(* the call; RgTick lets it pass, never beyond a timer that is due.        *)
(*   api      the metadata API strategy: auth, then meta, ok or failed     *)
(*   head     the HEAD probes of the three derived names, taken together   *)
(*   html     the scrape of the page                                       *)
(*   winner   the strategy that fulfilled first, first its URL, winAt the  *)
(*            time                                                         *)
(*   apiUrl   the URL the API strategy produced                            *)
(*   apiGrace what the grace wait for the API saw: arrived, failed, late,  *)
(*            or none when there was no wait                               *)
(*   decidedAt the time at which the race and the grace wait were over     *)
(*   probe    the outcome of the HEAD request for the non-silent file      *)
(* Once the candidate is decided the strategies are no longer observed.    *)
(***************************************************************************)
MaxMs == 8000
HeadTimeout == 2000
AuthTimeout == 2000
MetaTimeout == 3000
HtmlTimeout == 2000
Slack == 200
GraceMs == 700

RgLinks == {"withId", "noId"}

ApiUrls == {"apiUrl", "apiSilent"}

HtmlUrls == {"htmlUrl", "htmlSilent"}

\* hostname media.redgifs.com and a path ending in -silent.mp4
IsSilent(u) == u \in {"apiSilent", "htmlSilent"}

\* candidate.replace(/-silent(\.mp4)$/i, '$1')
NonSilent(u) ==
  CASE u = "apiSilent" -> "apiNonSilent"
    [] u = "htmlSilent" -> "htmlNonSilent"
    [] OTHER -> u

NoRg == [pc |-> "idle", raw |-> "none", now |-> 0,
         api |-> [st |-> "none", since |-> 0], head |-> "none", html |-> "none",
         winner |-> "none", first |-> "none", winAt |-> 0, apiUrl |-> "none",
         candidate |-> "none", apiGrace |-> "none", decidedAt |-> 0,
         probeEnd |-> 0, probe |-> "none",
         result |-> "none", outcome |-> "none"]

SetMin(S) == CHOOSE x \in S : \A y \in S : x <= y

\* The time at which withTimeout rejects the API strategy's current request.
ApiDeadline(p) ==
  IF p.api.st = "auth" THEN p.api.since + AuthTimeout + Slack
  ELSE p.api.since + MetaTimeout + Slack

\* The time at which withTimeout(apiPromise, 700) rejects.
GraceEnd(p) == p.winAt + GraceMs

ApiPending(p) == p.api.st \in {"auth", "meta"}

AllFailed(p) == p.api.st = "failed" /\ p.head = "failed" /\ p.html = "failed"

\* The timers that are running.
Deadlines(p) ==
  CASE p.pc = "race" ->
         {MaxMs}
         \cup (IF ApiPending(p) THEN {ApiDeadline(p)} ELSE {})
         \cup (IF p.head = "pending" THEN {HeadTimeout + Slack} ELSE {})
         \cup (IF p.html = "pending" THEN {HtmlTimeout + Slack} ELSE {})
    [] p.pc = "grace" -> {GraceEnd(p), ApiDeadline(p)}
    [] p.pc = "probe" -> {p.probeEnd}
    [] OTHER -> {}

\* A request can still succeed: its timer has not fired.
Timely(p, deadline) == p.now <= deadline

\* return candidate
RgReturn(p) == [p EXCEPT !.pc = "done", !.result = p.candidate, !.outcome = "returned"]

\* The catch block: return rawUrl
RgFallback(p) == [p EXCEPT !.pc = "done", !.result = "raw", !.outcome = "returned"]

\* The candidate is decided: a silent one is probed for its non-silent file.
AfterCandidate(p) ==
  LET q == [p EXCEPT !.decidedAt = p.now,
                     !.api = NoRg.api, !.head = "none", !.html = "none"]
  IN IF IsSilent(q.candidate)
     THEN [q EXCEPT !.pc = "probe", !.probeEnd = p.now + HeadTimeout + Slack]
     ELSE RgReturn(q)

\* Promise.any fulfils with strategy s and its URL u.  An API winner is
\* final; otherwise withTimeout(apiPromise, 700) is awaited, which rejects
\* at once when the API strategy has already failed.
AfterWinner(p, s, u) ==
  LET q == [p EXCEPT !.winner = s, !.first = u, !.winAt = p.now, !.candidate = u]
  IN IF s = "api" THEN AfterCandidate(q)
     ELSE IF q.api.st = "failed"
          THEN AfterCandidate([q EXCEPT !.apiGrace = "failed"])
          ELSE [q EXCEPT !.pc = "grace"]

\* Faulty variant: an API URL that arrives during the grace wait is dropped.
ApiOkKeepsWinner(p, u) ==
  LET q == [p EXCEPT !.api.st = "ok", !.apiUrl = u]
  IN IF p.pc = "race" THEN AfterWinner(q, "api", u)
     ELSE AfterCandidate([q EXCEPT !.apiGrace = "arrived"])

\* The API strategy fulfils with URL u.
ApiOk(p, u) ==
  LET q == [p EXCEPT !.api.st = "ok", !.apiUrl = u]
  IN IF p.pc = "race" THEN AfterWinner(q, "api", u)
     ELSE AfterCandidate([q EXCEPT !.candidate = u, !.apiGrace = "arrived"])

\* The API strategy rejects.
ApiFailed(p) ==
  LET q == [p EXCEPT !.api.st = "failed"]
  IN IF p.pc = "race" THEN q
     ELSE AfterCandidate([q EXCEPT !.apiGrace = "failed"])

RgUnchanged == UNCHANGED <<oldVars, ham, gen, pipe, lastVars>>

\* The call: the id is taken from the path and the three strategies start.
RgStart ==
  /\ rg.pc = "idle"
  /\ \E raw \in RgLinks :
       rg' = IF raw = "noId"
             THEN RgFallback([NoRg EXCEPT !.raw = raw])
             ELSE [NoRg EXCEPT !.pc = "race", !.raw = raw,
                               !.api = [st |-> "auth", since |-> 0],
                               !.head = "pending", !.html = "pending"]
  /\ RgUnchanged

\* Time passes, up to the next timer.
RgTick ==
  /\ rg.pc \in {"race", "grace", "probe"}
  /\ ~(rg.pc = "race" /\ AllFailed(rg))
  /\ rg.now < SetMin(Deadlines(rg))
  /\ rg' = [rg EXCEPT !.now = @ + RgTickMs]
  /\ RgUnchanged

\* The auth request settles: a token, or no token, an error or the timeout.
RgApiAuth ==
  /\ rg.pc \in {"race", "grace"}
  /\ rg.api.st = "auth"
  /\ rg.pc = "grace" => Timely(rg, GraceEnd(rg))
  /\ \/ /\ Timely(rg, ApiDeadline(rg))
        /\ rg' = [rg EXCEPT !.api = [st |-> "meta", since |-> rg.now]]
     \/ rg' = ApiFailed(rg)
  /\ RgUnchanged

\* The metadata request settles: a direct URL, or none, an error or the
\* timeout.
RgApiMeta ==
  /\ rg.pc \in {"race", "grace"}
  /\ rg.api.st = "meta"
  /\ rg.pc = "grace" => Timely(rg, GraceEnd(rg))
  /\ \/ /\ Timely(rg, ApiDeadline(rg))
        /\ \E u \in ApiUrls : rg' = ApiOk(rg, u)
     \/ rg' = ApiFailed(rg)
  /\ RgUnchanged

\* The HEAD probes settle: the first 2xx answer, or all of them failed.
RgHead ==
  /\ rg.pc = "race"
  /\ rg.head = "pending"
  /\ \/ /\ Timely(rg, HeadTimeout + Slack)
        /\ rg' = AfterWinner([rg EXCEPT !.head = "ok"], "head", "headUrl")
     \/ rg' = [rg EXCEPT !.head = "failed"]
  /\ RgUnchanged

\* The page request settles: an og:video URL, or none, an error or the
\* timeout.
RgHtml ==
  /\ rg.pc = "race"
  /\ rg.html = "pending"
  /\ \/ /\ Timely(rg, HtmlTimeout + Slack)
        /\ \E u \in HtmlUrls : rg' = AfterWinner([rg EXCEPT !.html = "ok"], "html", u)
     \/ rg' = [rg EXCEPT !.html = "failed"]
  /\ RgUnchanged

\* Promise.any rejects, or the overall timer fires: the catch block returns
\* the original URL.
RgRaceLost ==
  /\ rg.pc = "race"
  /\ AllFailed(rg) \/ rg.now >= MaxMs
  /\ rg' = RgFallback(rg)
  /\ RgUnchanged

\* The grace timer fires before the API strategy settles.
RgGraceTimeout ==
  /\ rg.pc = "grace"
  /\ rg.now >= GraceEnd(rg)
  /\ rg' = AfterCandidate([rg EXCEPT !.apiGrace = "late"])
  /\ RgUnchanged

\* Faulty variant: a failed probe reaches the outer catch block.
RgProbeFailureFallsBack ==
  /\ rg.pc = "probe"
  /\ \/ /\ Timely(rg, rg.probeEnd)
        /\ rg' = RgReturn([rg EXCEPT !.probe = "ok",
                                     !.candidate = NonSilent(rg.candidate)])
     \/ rg' = RgFallback([rg EXCEPT !.probe = "failed"])
  /\ RgUnchanged

\* The HEAD request for the non-silent file settles; its failure is dropped.
RgProbe ==
  /\ rg.pc = "probe"
  /\ \/ /\ Timely(rg, rg.probeEnd)
        /\ rg' = RgReturn([rg EXCEPT !.probe = "ok",
                                     !.candidate = NonSilent(rg.candidate)])
     \/ rg' = RgReturn([rg EXCEPT !.probe = "failed"])
  /\ RgUnchanged

NextRedgifs ==
  \/ RgStart \/ RgTick \/ RgApiAuth \/ RgApiMeta \/ RgHead \/ RgHtml
  \/ RgRaceLost \/ RgGraceTimeout \/ RgProbe

(***************************************************************************)
(* resolveMediaUrl on a discussion-site post, one action per request.      *)
(* The remote side is the function posts: for each post, the media URL its *)
(* JSON names (url_overridden_by_dest or url), which for a text post is    *)
(* the post's own link.  Every request is answered.                        *)
(*   url      the URL the innermost resolveMediaUrl call works on          *)
(*   depth    the number of nested resolveRedditUrl calls, counted up to   *)
(*            MaxDepth                                                     *)
(***************************************************************************)
Posts == {"postA", "postB"}

\* What a post's JSON can name: a post, a direct file, a page elsewhere.
Targets == Posts \cup {"file.mp4", "page"}

IsPost(u) == u \in Posts

NoRd == [pc |-> "idle", posts |-> [p \in Posts |-> "page"], url |-> "none",
         depth |-> 0, result |-> "none"]

\* resolveMediaUrl is called with the URL of a post.
RdStart ==
  /\ rd.pc = "idle"
  /\ \E posts \in [Posts -> Targets], u \in Posts :
       rd' = [NoRd EXCEPT !.pc = "dispatch", !.posts = posts, !.url = u]
  /\ UNCHANGED <<oldVars, ham, gen, pipe, rg, direct>>

\* resolveMediaUrl looks at the URL: a post goes to resolveRedditUrl, which
\* requests the page; anything else goes to the generic resolver, which
\* returns after at most one page request and its probes.
RdDispatch ==
  /\ rd.pc = "dispatch"
  /\ rd' = IF IsPost(rd.url)
           THEN [rd EXCEPT !.pc = "page",
                           !.depth = IF @ < MaxDepth THEN @ + 1 ELSE @]
           ELSE [rd EXCEPT !.pc = "done", !.result = rd.url]
  /\ UNCHANGED <<oldVars, ham, gen, pipe, rg, direct>>

\* The page request is answered; the JSON endpoint is requested next.
RdPage ==
  /\ rd.pc = "page"
  /\ rd' = [rd EXCEPT !.pc = "json"]
  /\ UNCHANGED <<oldVars, ham, gen, pipe, rg, direct>>

\* The JSON request is answered and names a media URL, with which
\* resolveMediaUrl is called again.
RdJson ==
  /\ rd.pc = "json"
  /\ rd' = [rd EXCEPT !.pc = "dispatch", !.url = rd.posts[rd.url]]
  /\ UNCHANGED <<oldVars, ham, gen, pipe, rg, direct>>

NextReddit == RdStart \/ RdDispatch \/ RdPage \/ RdJson

(***************************************************************************)
(* Requests the resolvers and the ingest job issue with axios directly:    *)
(* the page request of resolveGenericUrl, the HEAD probes, the JSON        *)
(* requests.  direct[h] counts those in flight to hostname h.              *)
(***************************************************************************)
NoDirect == [h \in Hostnames |-> 0]

\* axios.get(rawUrl) or axios.head(url): the request is sent at once.
DirectRequest(hostname) ==
  /\ direct[hostname] < MaxDirect
  /\ direct' = [direct EXCEPT ![hostname] = @ + 1]
  /\ UNCHANGED <<oldVars, ham, gen, pipe, rg, rd>>

\* The request is answered or fails.
DirectSettles(hostname) ==
  /\ direct[hostname] > 0
  /\ direct' = [direct EXCEPT ![hostname] = @ - 1]
  /\ UNCHANGED <<oldVars, ham, gen, pipe, rg, rd>>

NextOutbound ==
  \/ \E c \in Calls : WithHostLimit(c) \/ TaskSettles(c)
  \/ \E hostname \in Hostnames : DirectRequest(hostname) \/ DirectSettles(hostname)

(***************************************************************************)
(* Initial state and specifications.                                       *)
(***************************************************************************)
Init ==
  /\ ops = [o \in Ops |-> IdleOp]
  /\ fileRepository = {}
  /\ blobs = {}
  /\ scratch = {}
  /\ poll = NoPoll
  /\ hostLimits = <<>>
  /\ calls = [c \in Calls |-> IdleCall]
  /\ fetch = IdleFetch
  /\ now = 0
  /\ res = NoRes
  /\ win = NoWin
  /\ match = NoMatch
  /\ ham = NoHam
  /\ gen = NoGen
  /\ pipe = NoPipe
  /\ rg = NoRg
  /\ rd = NoRd
  /\ direct = NoDirect

Next ==
  \/ \E o \in Ops :
       \/ StartUpload(o) \/ UploadFindOne(o) \/ UploadS3(o) \/ UploadSave(o)
  \/ \E o \in 1..MaxJobs :
       \/ StartIngestJob(o) \/ JobResolved(o) \/ JobFetched(o) \/ JobData(o)
       \/ JobWritten(o) \/ JobS3Uploaded(o)

Spec == Init /\ [][Next]_vars

NextUrl ==
  \E o \in Ops :
    \/ StartUpload(o) \/ UploadFindOne(o) \/ UploadS3(o) \/ UploadSave(o)
    \/ StartUploadFromUrl(o) \/ UrlResolved(o) \/ UrlFetched(o) \/ UrlWritten(o)
    \/ UrlFallbackFetched(o) \/ UrlFallbackWritten(o)

SpecUrl == Init /\ [][NextUrl]_vars

NextStatus ==
  \/ \E o \in 1..MaxJobs :
       \/ StartIngestJob(o) \/ JobResolved(o) \/ JobFetched(o) \/ JobData(o)
       \/ JobWritten(o) \/ JobProgress(o) \/ JobS3Uploaded(o)
       \/ UploadFindOne(o) \/ UploadS3(o) \/ UploadSave(o)
  \/ GetIngest

SpecStatus == Init /\ [][NextStatus]_vars

\* Ingest jobs in full: progress events, notification outcomes and the
\* background pipeline of the saved asset.
NextJob ==
  \E o \in 1..MaxJobs :
    \/ StartIngestJob(o) \/ JobResolved(o) \/ JobFetched(o) \/ JobData(o)
    \/ JobWritten(o) \/ JobProgress(o) \/ JobS3Uploaded(o)
    \/ UploadFindOne(o) \/ UploadS3(o) \/ UploadSave(o)
    \/ NotifySettles(o)
    \/ BgProcess(o) \/ BgTranscode(o) \/ BgFingerprint(o) \/ BgMatch(o) \/ BgNotified(o)

SpecJob == Init /\ [][NextJob]_vars

\* The steps of the background task of job o and of the calls it awaits.
TaskStep(o) ==
  \/ JobResolved(o) \/ JobFetched(o) \/ JobData(o) \/ JobStreamError(o)
  \/ JobWritten(o) \/ JobProgress(o) \/ JobS3Uploaded(o)
  \/ UploadFindOne(o) \/ UploadS3(o) \/ UploadSave(o)
  \/ NotifySettles(o)

NextTask == \E o \in 1..MaxJobs : StartIngestJob(o) \/ TaskStep(o)

\* Every call the task awaits settles in the end, and the event loop runs
\* the task whenever it can continue.
SpecTask ==
  Init /\ [][NextTask]_vars /\ \A o \in 1..MaxJobs : WF_vars(TaskStep(o))

SpecLimiter == Init /\ [][NextLimiter]_vars

SpecFetch == Init /\ [][NextFetch]_vars

SpecResolve == Init /\ [][Resolve]_vars

SpecWindow == Init /\ [][BestWindow]_vars

SpecMatch == Init /\ [][FindParentMatch]_vars

SpecHamming == Init /\ [][HammingHex]_vars

SpecGeneric == Init /\ [][ResolveGeneric]_vars

SpecPipeline == Init /\ [][NextPipeline]_vars

\* Every started request completes or fails.
SpecLimiterFair ==
  Init /\ [][NextLimiter]_vars /\ \A c \in Calls : WF_vars(TaskSettles(c))

SpecOwners == Init /\ [][FindParentMatchOwned]_vars

SpecOutbound == Init /\ [][NextOutbound]_vars

\* Every request is answered, and the call goes on after each answer.
SpecReddit == Init /\ [][NextReddit]_vars /\ WF_vars(NextReddit)

\* Time passes and every timer fires: a step that is possible is taken.
SpecRedgifs == Init /\ [][NextRedgifs]_vars /\ WF_vars(NextRedgifs)

(***************************************************************************)
(* Properties of the ingest job engine and of duplicate detection.         *)
(***************************************************************************)
Lifecycle == <<"pending", "resolving", "downloading", "uploading", "saving", "done">>

IsPrefix(p, q) == Len(p) <= Len(q) /\ \A i \in 1..Len(p) : p[i] = q[i]

ValidHistory(h) ==
  \/ IsPrefix(h, Lifecycle)
  \/ /\ Len(h) >= 2
     /\ h[Len(h)] = "error"
     /\ IsPrefix(SubSeq(h, 1, Len(h) - 1), Lifecycle)
     /\ h[Len(h) - 1] # "done"

Jobs == {o \in Ops : ops[o].kind = "ingest"}

\* C1: the values assigned to a job's state form a prefix of pending,
\* resolving, downloading, uploading, saving, done, optionally followed by one
\* error entered from a non-terminal state; nothing follows done or error.
C1_JobLifecycle ==
  \A o \in Jobs :
    /\ ValidHistory(ops[o].hist)
    /\ ops[o].state = ops[o].hist[Len(ops[o].hist)]

C1_Witness ==
  \E o \in Jobs :
    /\ ops[o].state = "error"
    /\ ops[o].hist = Append(SubSeq(Lifecycle, 1, 5), "error")

HashOf(o) == computeQuickCombinedHash(ops[o].body).hash

\* The assets of o's owner that hold o's content.
Dups(o) == {f \in fileRepository : f.hash = HashOf(o) /\ f.ownerId = ops[o].ownerId}

\* uploadFile rejected the operation's file as a duplicate.
Rejected(rec) ==
  \/ rec.kind = "upload" /\ rec.result = "conflict"
  \/ rec.kind = "ingest" /\ rec.error = DuplicateError

CreatedBy(o) == {f \in fileRepository : f.id[1] = o}

C3_Rejection ==
  \A o \in Ops :
    Rejected(ops[o]) =>
      /\ CreatedBy(o) = {}
      /\ ops[o].kind = "upload" =>
           \E f \in Dups(o) : f.id = ops[o].conflictId

C3_Lookup ==
  \A o \in Ops :
    (ops[o].pc = "find" /\ ops'[o].pc # "find") =>
      /\ Rejected(ops'[o]) <=> Dups(o) # {}
      /\ Rejected(ops'[o]) => fileRepository' = fileRepository

C4_NoBlobBeforeRejection ==
  \A o \in Ops :
    Rejected(ops[o]) =>
      /\ {b \in blobs : b.op = o} = {}
      /\ <<o, "main">> \notin scratch

\* C5: no two asset records have the same (ownerId, hash) pair.
C5_UniqueOwnerHash ==
  \A f \in fileRepository, g \in fileRepository :
    (f.ownerId = g.ownerId /\ f.hash = g.hash) => f = g

\* The job's download was written to scratch and is zero bytes long.
EmptyDownload(o) ==
  /\ ops[o].kind = "ingest"
  /\ <<o, "main">> \in scratch
  /\ Len(ops[o].body) = 0

\* C6: a zero-byte download takes the job from downloading straight to error
\* with the empty-file message; it never enters uploading, saving or done, and
\* neither a blob nor an asset record results from it.
C6_EmptyDownloadIsError ==
  \A o \in Ops :
    EmptyDownload(o) =>
      /\ ops[o].hist = <<"pending", "resolving", "downloading", "error">>
      /\ ops[o].error = EmptyError
      /\ {b \in blobs : b.op = o} = {}
      /\ CreatedBy(o) = {}

C6_Witness == \E o \in Ops : EmptyDownload(o) /\ ops[o].state = "error"

\* The failure notifications issued for an operation.
FailureNotes(rec) ==
  {i \in 1..Len(rec.notes) : rec.notes[i].message \in {FailedNote, EmptyNote}}

C11_OnePerError ==
  \A o \in Jobs :
    /\ ops[o].state = "error" =>
         /\ Cardinality(FailureNotes(ops[o])) = 1
         /\ \A i \in FailureNotes(ops[o]) : ops[o].notes[i].userId = ops[o].ownerId
    /\ ops[o].state # "error" => FailureNotes(ops[o]) = {}

C11_Swallowed ==
  \A o \in Jobs :
    ops[o].state = "error" =>
      /\ ops'[o].state = "error"
      /\ ops'[o].error = ops[o].error
      /\ ops'[o].hist = ops[o].hist

\* C11: a job that enters error issues exactly one failure notification, to
\* the requesting user; a job that is not in error (done included) has issued
\* none; and once in error, whatever the notification sink does, the job's
\* state and error message stay as they are.
C11_FailureNotified == []C11_OnePerError /\ [][C11_Swallowed]_vars

C11_Witness ==
  \E o \in Jobs :
    /\ ops[o].state = "error"
    /\ ops[o].error = S3Error
    /\ FailureNotes(ops[o]) = {1}
    /\ ops[o].notes[1].status = "failed"

\* The record uploadFile saved for o.
SavedBy(o) ==
  {f \in fileRepository : /\ f.id = <<o, ops[o].phase>>
                          /\ f.ownerId = ops[o].ownerId
                          /\ f.hash = HashOf(o)}

C12_Harmless ==
  \A o \in Ops :
    ops[o].bgFailures # {} =>
      /\ SavedBy(o) # {}
      /\ FailureNotes(ops[o]) = {}
      /\ ops[o].notes # <<>> => "match" \notin ops[o].bgFailures
      /\ (ops[o].bg = "failed" /\ "notify" \notin ops[o].bgFailures) => ops[o].notes = <<>>
      /\ ops[o].kind = "ingest" => ops[o].state = "done"

C12_StaysDone == \A o \in Jobs : ops[o].state = "done" => ops'[o].state = "done"

\* C12: when a step of the background pipeline of a saved asset fails, no
\* failure notification is issued and none at all by the failing pipeline,
\* the saved record stays in the repository as it was saved, and the job that
\* created it is and stays done.
C12_DerivativeFailureHarmless == []C12_Harmless /\ [][C12_StaysDone]_vars

C12_Witness ==
  \E o \in Jobs :
    /\ ops[o].state = "done"
    /\ ops[o].bg = "failed"
    /\ ops[o].bgFailures = {"transcode", "match"}
    /\ SavedBy(o) # {}

C13_Step ==
  \A o \in Jobs :
    /\ ops'[o].totalBytes >= ops[o].totalBytes
    /\ ops'[o].downloadedBytes >= ops[o].downloadedBytes
    /\ ops'[o].uploadedBytes >= ops[o].uploadedBytes

\* C13: no step of a job's lifetime decreases totalBytes, downloadedBytes or
\* uploadedBytes of the job.
C13_CountersMonotonic == [][C13_Step]_vars

C13_Witness ==
  \E o \in Jobs :
    /\ ops[o].state = "done"
    /\ ops[o].totalBytes > Len(ops[o].body)
    /\ ops[o].downloadedBytes = 1
    /\ ops[o].uploadedBytes = 1

\* A step of the task of job o.
JobStep(o) ==
  \/ StartIngestJob(o) \/ JobResolved(o) \/ JobFetched(o) \/ JobData(o)
  \/ JobWritten(o) \/ JobProgress(o) \/ JobS3Uploaded(o)
  \/ UploadFindOne(o) \/ UploadS3(o) \/ UploadSave(o)

\* Some step of job o sets its state to error.
CanFail(o) == ENABLED (JobStep(o) /\ ops'[o].state = "error")

\* The duplicate lookup of job o can pass, which leaves it in saving at the
\* blob-store upload of uploadFile.
CanPassLookup(o) == ENABLED (UploadFindOne(o) /\ ops'[o].pc = "s3")

ErrorAfter(h, s) == \E i \in 1..(Len(h) - 1) : h[i] = s /\ h[i + 1] = "error"

C14_FromWorkingStates ==
  \A o \in Jobs :
    ops[o].state \in {"resolving", "downloading", "uploading", "saving"} =>
      \/ CanFail(o)
      \/ ops[o].state = "saving" /\ CanPassLookup(o)

\* C14 as stated: from pending, resolving, downloading, uploading and saving
\* alike some execution takes the job next to error; pending is the state in
\* which the job is created.
C14_ErrorFromEveryState ==
  /\ C14_FromWorkingStates
  /\ \A o \in 1..MaxJobs :
       ops[o].pc = "idle" =>
         ENABLED (StartIngestJob(o) /\ ErrorAfter(ops'[o].hist, "pending"))

\* C14 amended: pending is always followed by resolving, and from resolving,
\* downloading, uploading and saving some execution takes the job next to
\* error (in saving possibly after the duplicate lookup has passed).
C14_ErrorFromWorkingStates ==
  /\ C14_FromWorkingStates
  /\ \A o \in Jobs : SubSeq(ops[o].hist, 1, 2) = <<"pending", "resolving">>

C14_Witness ==
  \E o \in Jobs : ops[o].hist = <<"pending", "resolving", "error">>

\* C15: an uploadFromUrl whose downloaded content the owner already has ends
\* with the conflict signal naming the existing asset, never in success with
\* another stored asset and never in a failure without the id.
C15_UrlDuplicateConflict ==
  \A o \in Ops :
    (ops[o].kind = "url" /\ ops[o].pc = "done" /\ ops[o].conflictId # NoId) =>
      /\ ops[o].result = "conflict"
      /\ CreatedBy(o) = {}

EmptyHash == computeQuickCombinedHash(<<>>).hash

\* C16: no ingest job and no uploadFromUrl ever puts a zero-byte body into
\* the blob store or creates an asset record for one.
C16_ZeroByteNeverStored ==
  /\ \A b \in blobs : ops[b.op].kind \in {"ingest", "url"} => Len(b.body) > 0
  /\ \A f \in fileRepository :
       ops[f.id[1]].kind \in {"ingest", "url"} => f.hash # EmptyHash

\* C23: a job is in state downloading only once fetchStreamWithBackoff has
\* produced the response; while the fetch is outstanding the state is still
\* resolving.
C23_DownloadingAfterResponse ==
  \A o \in Jobs :
    /\ ops[o].state = "downloading" => ops[o].pc # "fetch"
    /\ ops[o].pc = "fetch" => ops[o].state = "resolving"

\* C24: every ingest job that was started reaches done or error in the end.
C24_EveryJobEnds ==
  \A o \in 1..MaxJobs :
    (ops[o].kind = "ingest") ~> (ops[o].state \in {"done", "error"})

\* C22: a URL that reaches the generic resolver and ends in a direct video
\* extension is returned unchanged, and no request is issued.
C22_DirectUrlUnchanged ==
  (gen.called /\ gen.url.ext \in {".mp4", ".webm", ".mkv"}) =>
    /\ gen.out = [raised |-> FALSE, url |-> gen.url, error |-> ""]
    /\ ~gen.pageRequested

C22_Witness ==
  /\ gen.called
  /\ gen.url.ext = ".mp4"
  /\ gen.url.site = "example.com"
  /\ gen.net.generic
  /\ gen.out.url = gen.url
  /\ ~gen.pageRequested

\* C9: resolveMediaUrl never raises; when no strategy yields a direct media
\* URL it returns the original URL.
C9_NeverRaises == res.called => ~res.out.raised

\* C10: getIngestStatus returns a snapshot only to the job's creator; any
\* other caller gets the answer given for a job id that does not exist.
C10_OwnerOnly ==
  poll.jobId # 0 =>
    /\ poll.out.found =>
         /\ IsJob(poll.jobId)
         /\ ops[poll.jobId].ownerId = poll.caller
         /\ poll.out.id = poll.jobId
    /\ (~IsJob(poll.jobId) \/ ops[poll.jobId].ownerId # poll.caller) =>
         poll.out = NotFound

C10_Witness ==
  /\ poll.jobId # 0
  /\ IsJob(poll.jobId)
  /\ ops[poll.jobId].ownerId # poll.caller
  /\ ops[poll.jobId].state = "done"
  /\ poll.out = NotFound

(***************************************************************************)
(* Derivative pipeline claims.                                             *)
(***************************************************************************)
Started(step) == \E i \in 1..Len(pipe.started) : pipe.started[i] = step

Step1Calls == {"process", "bgthumb", "update"}

TranscodeCalls == {"tstatus", "transcode", "mp4up", "tready"}

\* C25: when the background task has ended and the only calls that failed
\* belong to step 1 or to the transcode, the fingerprint step and the matcher
\* were started, and for a failure in step 1 of a webm asset the transcode
\* was started as well.
C25_LaterStepsStillRun ==
  (/\ pipe.pc = "ended"
   /\ pipe.runs > 0
   /\ pipe.failed # {}
   /\ pipe.failed \subseteq Step1Calls \cup TranscodeCalls)
  => /\ Started("fingerprint")
     /\ Started("match")
     /\ (pipe.failed \subseteq Step1Calls /\ IsWebm(pipe.mime)) => Started("transcode")

\* C26: when the background task has ended, no scratch file of the upload is
\* left on disk: the source file, both thumbnails and the mp4 file are gone.
C26_NoScratchFileRemains ==
  (pipe.pc = "ended" /\ pipe.runs > 0) => pipe.files = {}

StatusRank(s) ==
  CASE s = "null" -> 0
    [] s = "pending" -> 1
    [] s = "processing" -> 2
    [] s \in {"ready", "failed"} -> 3

\* The status never moves back and never leaves ready or failed.
StatusMovesForward ==
  \A i \in 1..(Len(pipe.statusHist) - 1) :
    StatusRank(pipe.statusHist[i]) < StatusRank(pipe.statusHist[i + 1])

\* The status is processing before transcodeToMp4 is called.
ProcessingBeforeAttempt ==
  pipe.pc = "transcode" => pipe.record.transcodeStatus = "processing"

\* The mp4 key is set exactly when the status is ready.
Mp4KeyIffReady ==
  pipe.record.mp4Key <=> (pipe.record.transcodeStatus = "ready")

\* Once the task has ended after a transcode attempt, the status is final.
FinalAfterAttempt ==
  (pipe.pc = "ended" /\ Started("transcode"))
  => pipe.record.transcodeStatus \in {"ready", "failed"}

\* C27: for a webm asset the status is processing before the transcode is
\* attempted and ready or failed after it, it only moves forward through
\* pending, processing and ready or failed, and the mp4 key is set exactly
\* when the status is ready.
C27_TranscodeStatus ==
  /\ ProcessingBeforeAttempt
  /\ FinalAfterAttempt
  /\ StatusMovesForward
  /\ Mp4KeyIffReady

\* C28: a derivative step has started only if the primary blob is stored and
\* the record is saved, the matcher has started only if the fingerprint
\* fields are written, and the background task was started at most once.
C28_PipelineOrder ==
  /\ (pipe.started # <<>> \/ pipe.runs > 0)
       => ("main" \in pipe.stored /\ pipe.record.saved)
  /\ Started("match") => pipe.record.fingerprintWritten
  /\ pipe.runs <= 1

C28_Witness ==
  /\ Started("match")
  /\ pipe.runs = 1
  /\ pipe.record.fingerprintWritten

(***************************************************************************)
(* resolveRedgifsUrl claims.                                               *)
(***************************************************************************)
\* The race and the grace wait are over.
Decided == rg.winner # "none" /\ rg.pc \in {"probe", "done"}

\* The URL the race and the grace wait should settle on.
Preferred ==
  IF rg.winner # "api" /\ rg.apiGrace = "arrived" THEN rg.apiUrl ELSE rg.first

\* The overall timer never fires: each strategy has given up long before.
RaceEndsBeforeDeadline == rg.pc = "race" => rg.now < MaxMs

\* C29: the race is over as soon as one strategy has a URL, and that URL is
\* the candidate; an API winner is final without a wait; behind another
\* winner an API URL that arrives within 700 ms of the win replaces the
\* candidate, and when the API fails or has not arrived by then the winner's
\* URL is kept.
C29_RaceAndGrace ==
  /\ rg.pc = "race"
       => (rg.winner = "none" /\ rg.api.st # "ok" /\ rg.head # "ok" /\ rg.html # "ok")
  /\ rg.pc = "grace"
       => (rg.winner \in {"head", "html"} /\ rg.candidate = rg.first /\ ApiPending(rg))
  /\ Decided =>
       /\ rg.candidate = (IF rg.probe = "ok" THEN NonSilent(Preferred) ELSE Preferred)
       /\ rg.winner = "api" => (rg.apiGrace = "none" /\ rg.decidedAt = rg.winAt
                                  /\ rg.first = rg.apiUrl)
       /\ rg.winner # "api" => rg.apiGrace \in {"arrived", "failed", "late"}
       /\ rg.apiGrace = "arrived" => (rg.apiUrl \in ApiUrls /\ rg.decidedAt <= GraceEnd(rg))
       /\ rg.apiGrace = "failed" => rg.decidedAt <= GraceEnd(rg)
       /\ rg.apiGrace = "late" => rg.decidedAt >= GraceEnd(rg)

C29_Witness ==
  /\ rg.pc = "done"
  /\ rg.winner = "head"
  /\ rg.apiGrace = "arrived"
  /\ rg.decidedAt > rg.winAt
  /\ rg.result = "apiUrl"

\* What a finished call may have returned.
ReturnsSomeUrl ==
  rg.pc = "done" =>
    /\ rg.outcome = "returned"
    /\ rg.winner = "none" => rg.result = "raw"
    /\ rg.winner # "none" =>
         rg.result = (IF rg.probe = "ok" THEN NonSilent(Preferred) ELSE Preferred)

\* A strategy that hangs holds the URL of another back for the grace wait
\* at most.
NotBlocked ==
  /\ rg.pc = "race" => (rg.api.st # "ok" /\ rg.head # "ok" /\ rg.html # "ok")
  /\ rg.pc = "grace" => rg.now < GraceEnd(rg) + RgTickMs
  /\ Decided => rg.decidedAt < GraceEnd(rg) + RgTickMs

\* C30: every call returns and none raises; the URL of one strategy is
\* returned although another hangs; when all strategies fail, or the overall
\* timer fires first, the original URL is returned; and a failed probe for
\* the non-silent file leaves the resolved URL in place.
C30_AlwaysReturns ==
  /\ [](rg.outcome \in {"none", "returned"} /\ ReturnsSomeUrl /\ NotBlocked)
  /\ (rg.pc # "idle") ~> (rg.pc = "done" /\ rg.outcome = "returned")

C30_Witness ==
  /\ rg.pc = "done"
  /\ rg.winner = "html"
  /\ rg.apiGrace = "late"
  /\ rg.probe = "failed"
  /\ rg.result = "htmlSilent"

(***************************************************************************)
(* Recursion of the discussion-site strategy.                              *)
(***************************************************************************)
\* C31: every resolveMediaUrl call on a post returns when each of its
\* requests is answered, also when a post names a post again.
C31_ResolutionTerminates == (rd.pc # "idle") ~> (rd.pc = "done")

(***************************************************************************)
(* Outbound requests and the limiter.                                      *)
(***************************************************************************)
\* The requests in flight to a hostname, whoever sent them.
InFlight(hostname) == Cardinality(Running(hostname)) + direct[hostname]

\* C32: the requests in flight to a hostname, the resolvers' GET and HEAD
\* requests included, never exceed the hostname's limit.
C32_AllRequestsLimited ==
  \A hostname \in Hostnames : InFlight(hostname) <= HostLimitFor(hostname)

(***************************************************************************)
(* Order and progress of the limiter's queue.                              *)
(***************************************************************************)
QueueOf(hostname) ==
  IF hostname \in DOMAIN hostLimits THEN hostLimits[hostname].queue ELSE <<>>

Queued(hostname) == {c \in Calls : calls[c].pc = "queued" /\ calls[c].host = hostname}

\* What one step does to the queue of each hostname.
FifoStep ==
  \A c \in Calls :
    /\ (calls[c].pc = "idle" /\ calls'[c].pc = "queued") =>
         hostLimits'[calls'[c].host].queue = Append(QueueOf(calls'[c].host), c)
    /\ (calls[c].pc = "idle" /\ calls'[c].pc = "running") =>
         Queued(calls'[c].host) = {}
    /\ (calls[c].pc = "queued" /\ calls'[c].pc = "running") =>
         /\ c = Head(QueueOf(calls[c].host))
         /\ hostLimits'[calls[c].host].queue = Tail(QueueOf(calls[c].host))
         /\ \A d \in Queued(calls[c].host) \ {c} : calls'[d].pc = "queued"

\* C33: a call that has to wait joins the end of its hostname's queue, a
\* released slot starts the call at the head of the queue and no other, and
\* a call that arrives while calls are waiting does not start before them.
C33_Fifo == [][FifoStep]_vars

C33_Witness ==
  \E c \in Calls :
    /\ calls[c].pc = "running"
    /\ calls[c].waited
    /\ Len(QueueOf(calls[c].host)) >= 2

\* The queue and the count in every state.
QueueOnlyWhenFull ==
  \A hostname \in DOMAIN hostLimits :
    /\ hostLimits[hostname].active = Cardinality(Running(hostname))
    /\ hostLimits[hostname].queue # <<>> =>
         hostLimits[hostname].active = hostLimits[hostname].limit
    /\ (\A c \in Calls : calls[c].pc = "idle") =>
         (hostLimits[hostname].active = 0 /\ hostLimits[hostname].queue = <<>>)

\* C34: every queued call starts when every started request settles; the
\* count equals the number of running requests, the queue is non-empty only
\* while the count equals the limit, and with no call left the count is 0
\* and the queue empty.
C34_QueuedCallsStart ==
  /\ []QueueOnlyWhenFull
  /\ \A c \in Calls : (calls[c].pc = "queued") ~> (calls[c].pc = "running")

C34_Witness ==
  \E c \in Calls :
    /\ calls[c].pc = "running"
    /\ calls[c].waited
    /\ QueueOf(calls[c].host) = <<>>
    /\ \A d \in Calls \ {c} : calls[d].pc = "idle"

(***************************************************************************)
(* What a job reports.                                                     *)
(***************************************************************************)
\* The status the job's creator is given.
StatusOf(o) == getIngestStatus(o, ops[o].ownerId)

\* C35: a job whose download is content its creator already has ends in
\* error, and the status returned to the creator names the existing asset.
C35_DuplicateReportsAsset ==
  \A o \in Jobs :
    ops[o].error = DuplicateError =>
      /\ StatusOf(o).state = "error"
      /\ \E f \in Dups(o) : StatusOf(o).fileId = f.id
\* A status names an asset exactly in done and an error exactly in error.
Consistent(out) ==
  /\ out.fileId # NoId <=> out.state = "done"
  /\ out.error # "none" <=> out.state = "error"

\* C36: every status of a job, the one polled last included, has a fileId
\* exactly when its state is done and an error exactly when its state is
\* error, and the fileId of a job in done is the id of a saved record.
C36_FileIdAndError ==
  /\ \A o \in Jobs :
       /\ Consistent(StatusOf(o))
       /\ ops[o].state = "done" => \E f \in fileRepository : f.id = StatusOf(o).fileId
  /\ poll.out.found => Consistent(poll.out)

C36_Witness ==
  /\ poll.out.found
  /\ poll.out.state = "done"
  /\ \E f \in fileRepository : f.id = poll.out.fileId
(***************************************************************************)
(* The matcher and the owners of the assets.                               *)
(***************************************************************************)
OwnerOf(id) == (CHOOSE f \in match.stored : f.id = id).ownerId

\* C37: the asset a match names, and with it the notification sent to the
\* owner of the new asset, belongs to the owner of the new asset.
C37_MatchSameOwner ==
  (match.called /\ match.out.found) => OwnerOf(match.out.id) = OwnerOf(match.newId)

(***************************************************************************)
(* Primary blobs and the records that name them.                           *)
(***************************************************************************)
WrittenBy(o) == {b \in blobs : b.op = o}

Referenced(b) == \E f \in fileRepository : f.filename = b.key

\* C38: once an upload or an ingest job has completed, every primary blob it
\* wrote is the filename of a saved asset record (a failed operation leaves
\* no blob behind), and an ingest job that ended in done wrote exactly one.
C38_BlobsReferenced ==
  \A o \in Ops :
    ops[o].pc = "done" =>
      /\ \A b \in WrittenBy(o) : Referenced(b)
      /\ (ops[o].kind = "ingest" /\ ops[o].state = "done") =>
           Cardinality(WrittenBy(o)) = 1

(***************************************************************************)
(* The delays of fetchStreamWithBackoff without Retry-After.               *)
(***************************************************************************)
\* The call sleeps before a retry and the answer carried no Retry-After.
SleepsWithoutRetryAfter == fetch.pc = "sleeping" /\ fetch.last.ra = 0

\* The delay chosen after attempt fetch.attempt.
ChosenDelay == fetch.wakeAt - fetch.last.at

\* C39: without Retry-After the delay after attempt k is base * 2^k plus a
\* jitter below the jitter bound, with the base and the jitter bound of the
\* 429 schedule both after a 429 and after a request-level failure.
C39_SameSchedule ==
  SleepsWithoutRetryAfter =>
    /\ ChosenDelay >= Base429 * 2^(fetch.attempt)
    /\ ChosenDelay < Base429 * 2^(fetch.attempt) + Jitter429

====
